---- MODULE Spec2Model ----
(***************************************************************************)
(* Timesheet dashboard: label decoding, day/week aggregation and the       *)
(* commit-gap hour estimator, and the root component with its handlers      *)
(* for loading, adding, editing and deleting entries against the remote.   *)
(*                                                                         *)
(* Units.  An hour value is held in minutes (0.5 h = 30, 8 h = 480), so    *)
(* that the quarter-hour values of the fallback table stay integers.  A    *)
(* Date is the number of seconds since 1970-01-01T00:00 on the local       *)
(* clock of a fixed-offset time zone (the source's millisecond part is     *)
(* dropped; daylight-saving changes are outside the model).                *)
(***************************************************************************)
EXTENDS Integers, Sequences, FiniteSets, TLC

VARIABLES
    op,      \* name of the function called
    input,   \* the arguments of the call
    pc,      \* "call" until the function has returned, then "done"
    output,  \* the value it returned
    app,             \* which root component runs: "daily", "plans" or "none"
    remote,          \* the task store of the remote service
    plans,           \* ref plans
    buckets,         \* ref buckets
    entriesRef,      \* ref entries (entries names a parameter elsewhere)
    allMyTasks,      \* ref allMyTasks (the "plans" component only)
    selectedPlanId,  \* ref selectedPlanId (the "plans" component only)
    loading,         \* ref loading
    error,           \* ref error: <<>> for null, else <<message>>
    isInitializing,  \* ref isInitializing
    calls,           \* the handler activations, in the order they started
    form             \* the edit form of the daily view

callVars == <<op, input, pc, output>>

appVars ==
    <<app, remote, plans, buckets, entriesRef, allMyTasks, selectedPlanId,
      loading, error, isInitializing, calls, form>>

vars == <<callVars, appVars>>

(***************************************************************************)
(* Bounds of the model                                                     *)
(***************************************************************************)
MaxFlags == 2
MaxCommits == 3
MaxEntries == 3
MaxCalls == 2
MaxFailures == 1

(***************************************************************************)
(* Small helpers                                                           *)
(***************************************************************************)
SeqsUpTo(S, n) == UNION {[1..k -> S] : k \in 0..n}

Range(s) == {s[i] : i \in DOMAIN s}

MinOf(S) == CHOOSE x \in S : \A y \in S : x <= y

RECURSIVE SumHours(_)
SumHours(s) == IF s = <<>> THEN 0 ELSE s[1].hours + SumHours(Tail(s))

null == [isNull |-> TRUE]

(***************************************************************************)
(* Label decoder                                                           *)
(***************************************************************************)
\* Mutant: the table of the README (category3 is 1.5 h, category11 is 5 h)
CATEGORY_HOURS_MAP_Readme ==
    [category1 |-> 30, category2 |-> 60, category3 |-> 90,
     category4 |-> 120, category5 |-> 180, category6 |-> 240,
     category11 |-> 300, category7 |-> 360, category8 |-> 420,
     category9 |-> 480]

CATEGORY_HOURS_MAP ==
    [category1 |-> 30, category2 |-> 60, category3 |-> 120,
     category4 |-> 180, category5 |-> 240, category6 |-> 300,
     category7 |-> 360, category8 |-> 420, category9 |-> 480]

DIRECT_HOURS_MAP ==
    ("0.5h" :> 30) @@ ("0.5 h" :> 30) @@ ("0.5H" :> 30) @@ ("0.5 H" :> 30) @@
    ("1h" :> 60) @@ ("1 h" :> 60) @@ ("1H" :> 60) @@ ("1 H" :> 60) @@
    ("1.5h" :> 90) @@ ("1.5 h" :> 90) @@ ("1.5H" :> 90) @@ ("1.5 H" :> 90) @@
    ("2h" :> 120) @@ ("2 h" :> 120) @@ ("2H" :> 120) @@ ("2 H" :> 120) @@
    ("2.5h" :> 150) @@ ("2.5 h" :> 150) @@ ("2.5H" :> 150) @@ ("2.5 H" :> 150) @@
    ("3h" :> 180) @@ ("3 h" :> 180) @@ ("3H" :> 180) @@ ("3 H" :> 180) @@
    ("3.5h" :> 210) @@ ("3.5 h" :> 210) @@ ("3.5H" :> 210) @@ ("3.5 H" :> 210) @@
    ("4h" :> 240) @@ ("4 h" :> 240) @@ ("4H" :> 240) @@ ("4 H" :> 240) @@
    ("4.5h" :> 270) @@ ("4.5 h" :> 270) @@ ("4.5H" :> 270) @@ ("4.5 H" :> 270) @@
    ("5h" :> 300) @@ ("5 h" :> 300) @@ ("5H" :> 300) @@ ("5 H" :> 300) @@
    ("5.5h" :> 330) @@ ("5.5 h" :> 330) @@ ("5.5H" :> 330) @@ ("5.5 H" :> 330) @@
    ("6h" :> 360) @@ ("6 h" :> 360) @@ ("6H" :> 360) @@ ("6 H" :> 360) @@
    ("6.5h" :> 390) @@ ("6.5 h" :> 390) @@ ("6.5H" :> 390) @@ ("6.5 H" :> 390) @@
    ("7h" :> 420) @@ ("7 h" :> 420) @@ ("7H" :> 420) @@ ("7 H" :> 420) @@
    ("7.5h" :> 450) @@ ("7.5 h" :> 450) @@ ("7.5H" :> 450) @@ ("7.5 H" :> 450) @@
    ("8h" :> 480) @@ ("8 h" :> 480) @@ ("8H" :> 480) @@ ("8 H" :> 480) @@
    ("9h" :> 540) @@ ("9 h" :> 540) @@ ("9H" :> 540) @@ ("9 H" :> 540) @@
    ("10h" :> 600) @@ ("10 h" :> 600) @@ ("10H" :> 600) @@ ("10 H" :> 600) @@
    ("12h" :> 720) @@ ("12 h" :> 720) @@ ("12H" :> 720) @@ ("12 H" :> 720) @@
    ("30m" :> 30) @@ ("30 m" :> 30) @@ ("30min" :> 30) @@ ("30 min" :> 30) @@
    ("15m" :> 15) @@ ("15 m" :> 15) @@ ("15min" :> 15) @@ ("15 min" :> 15) @@
    ("45m" :> 45) @@ ("45 m" :> 45) @@ ("45min" :> 45) @@ ("45 min" :> 45)

\* Number.prototype.toString of an hour value held in minutes: 90 -> "1.5"
NumberToString(minutes) ==
    ToString(minutes \div 60) \o
        (CASE minutes % 60 = 0  -> ""
           [] minutes % 60 = 15 -> ".25"
           [] minutes % 60 = 30 -> ".5"
           [] minutes % 60 = 45 -> ".75")

getCategoryDisplayLabel(category) ==
    IF category \notin DOMAIN CATEGORY_HOURS_MAP
    THEN category
    ELSE LET hours == CATEGORY_HOURS_MAP[category]
         IN  IF hours < 60
             THEN ToString(hours) \o "m"      \* Math.round(hours * 60)
             ELSE NumberToString(hours) \o "h"

\* Mutant: the last applied identifier of the table wins, not the first
FirstApplied_Last(categories, table) ==
    LET hits == {i \in DOMAIN categories :
                    categories[i][2] /\ categories[i][1] \in DOMAIN table}
    IN  IF hits = {} THEN 0 ELSE CHOOSE x \in hits : \A y \in hits : y <= x

\* categories: the Object.entries of the mapping, <<identifier, flag>> pairs
\* in the mapping's iteration order.
FirstApplied(categories, table) ==
    LET hits == {i \in DOMAIN categories :
                    categories[i][2] /\ categories[i][1] \in DOMAIN table}
    IN  IF hits = {} THEN 0 ELSE MinOf(hits)

parseHoursFromCategories(categories) ==
    LET c == FirstApplied(categories, CATEGORY_HOURS_MAP)
        d == FirstApplied(categories, DIRECT_HOURS_MAP)
    IN  IF c /= 0
        THEN [hours        |-> CATEGORY_HOURS_MAP[categories[c][1]],
              categoryName |-> categories[c][1],
              displayLabel |-> getCategoryDisplayLabel(categories[c][1])]
        ELSE IF d /= 0
        THEN [hours        |-> DIRECT_HOURS_MAP[categories[d][1]],
              categoryName |-> categories[d][1],
              displayLabel |-> categories[d][1]]
        ELSE null

\* hours: categoryHours?.hours || 0
EntryHoursOf(categoryHours) ==
    IF categoryHours = null \/ categoryHours.hours = 0 THEN 0
    ELSE categoryHours.hours

(***************************************************************************)
(* Calendar (date-fns on local time)                                       *)
(***************************************************************************)
SecondsPerDay == 24 * 60 * 60

\* Days since 1970-01-01 of the calendar day a Date falls on
DayNumber(date) == date \div SecondsPerDay

\* Date.prototype.getDay: 0 = Sunday .. 6 = Saturday (1970-01-01: Thursday)
getDay(date) == (DayNumber(date) + 4) % 7

startOfDay(date) == DayNumber(date) * SecondsPerDay

\* Proleptic Gregorian year, month, day of a day number
CivilFromDays(n) ==
    LET z   == n + 719468
        era == z \div 146097
        doe == z - era * 146097
        yoe == (doe - doe \div 1460 + doe \div 36524 - doe \div 146096) \div 365
        doy == doe - (365 * yoe + yoe \div 4 - yoe \div 100)
        mp  == (5 * doy + 2) \div 153
        d   == doy - (153 * mp + 2) \div 5 + 1
        m   == IF mp < 10 THEN mp + 3 ELSE mp - 9
        y   == yoe + era * 400 + (IF m <= 2 THEN 1 ELSE 0)
    IN  [y |-> y, m |-> m, d |-> d]

DaysFromCivil(y, m, d) ==
    LET yy  == IF m <= 2 THEN y - 1 ELSE y
        era == yy \div 400
        yoe == yy - era * 400
        doy == (153 * (IF m > 2 THEN m - 3 ELSE m + 9) + 2) \div 5 + d - 1
        doe == yoe * 365 + yoe \div 4 - yoe \div 100 + doy
    IN  era * 146097 + doe - 719468

\* format(date, 'yyyy-MM-dd'): the eight digits of the zero-padded text
\* (the two dashes sit at fixed places and are left out).
formatKey(date) ==
    LET c == CivilFromDays(DayNumber(date))
    IN  <<c.y \div 1000, (c.y \div 100) % 10, (c.y \div 10) % 10, c.y % 10,
          c.m \div 10, c.m % 10, c.d \div 10, c.d % 10>>

\* parseISO of a 'yyyy-MM-dd' text: local midnight of that day
parseISOKey(key) ==
    DaysFromCivil(key[1] * 1000 + key[2] * 100 + key[3] * 10 + key[4],
                  key[5] * 10 + key[6], key[7] * 10 + key[8]) * SecondsPerDay

\* format(date, 'EEEE')
formatDayName(date) ==
    <<"Sunday", "Monday", "Tuesday", "Wednesday", "Thursday", "Friday",
      "Saturday">>[getDay(date) + 1]

\* Mutant: startOfWeek(date) with the default week start, Sunday
startOfWeek_SundayStart(date) ==
    (DayNumber(date) - getDay(date)) * SecondsPerDay

\* startOfWeek(date, { weekStartsOn: 1 })
startOfWeek(date) ==
    LET day  == getDay(date)
        diff == (IF day < 1 THEN 7 ELSE 0) + day - 1
    IN  (DayNumber(date) - diff) * SecondsPerDay

\* Mutant: endOfWeek(date) with the default week start, Sunday
endOfWeek_SundayStart(date) ==
    (DayNumber(date) + 6 - getDay(date)) * SecondsPerDay + (SecondsPerDay - 1)

\* endOfWeek(date, { weekStartsOn: 1 }): 23:59:59 of the week's last day
endOfWeek(date) ==
    LET day  == getDay(date)
        diff == (IF day < 1 THEN -7 ELSE 0) + 6 - (day - 1)
    IN  (DayNumber(date) + diff) * SecondsPerDay + (SecondsPerDay - 1)

\* eachDayOfInterval({ start, end }): local midnights from start's day on,
\* while not after end
eachDayOfInterval(start, end) ==
    LET first == DayNumber(start)
        count == IF end < startOfDay(start) THEN 0
                 ELSE DayNumber(end) - first + 1
    IN  [i \in 1..count |-> (first + i - 1) * SecondsPerDay]

\* String comparison of two key texts of equal length
KeyLess(a, b) ==
    \E i \in DOMAIN a :
        /\ a[i] < b[i]
        /\ \A j \in 1..(i - 1) : a[j] = b[j]

\* Array.from(map.keys()).sort(): the keys in ascending text order
RECURSIVE SortKeys(_)
SortKeys(keys) ==
    IF keys = {} THEN <<>>
    ELSE LET least == CHOOSE k \in keys : \A o \in keys \ {k} : KeyLess(k, o)
         IN  <<least>> \o SortKeys(keys \ {least})

(***************************************************************************)
(* Aggregator                                                              *)
(***************************************************************************)
\* Array.prototype.sort((a, b) => a.date - b.date): stable, ascending
RECURSIVE InsertByDate(_, _)
InsertByDate(sorted, e) ==
    IF sorted = <<>> THEN <<e>>
    ELSE IF sorted[Len(sorted)].date <= e.date THEN Append(sorted, e)
    ELSE Append(InsertByDate(SubSeq(sorted, 1, Len(sorted) - 1), e),
                sorted[Len(sorted)])

\* Mutant: the day's entries are left in arrival order
SortByDate_Unsorted(s) == s

RECURSIVE SortByDate(_)
SortByDate(s) ==
    IF s = <<>> THEN <<>>
    ELSE InsertByDate(SortByDate(SubSeq(s, 1, Len(s) - 1)), s[Len(s)])

\* Mutant: dayMap.set(dateKey, [entry]) on every entry keeps only the last
DayEntries_LastOnly(entries, dateKey) ==
    LET all == SelectSeq(entries, LAMBDA e : formatKey(e.date) = dateKey)
    IN  IF all = <<>> THEN <<>> ELSE <<all[Len(all)]>>

\* dayMap.get(dateKey): the entries of that day, in input order
DayEntries(entries, dateKey) ==
    SelectSeq(entries, LAMBDA e : formatKey(e.date) = dateKey)

DailyTimesheet(date, dayEntries) ==
    [date       |-> date,
     dayName    |-> formatDayName(date),
     entries    |-> SortByDate(dayEntries),
     totalHours |-> SumHours(dayEntries)]

groupByDay(entries) ==
    LET sortedKeys == SortKeys({formatKey(e.date) : e \in Range(entries)})
    IN  [i \in DOMAIN sortedKeys |->
            DailyTimesheet(parseISOKey(sortedKeys[i]),
                           DayEntries(entries, sortedKeys[i]))]

\* weekMap.get(weekKey): the entries of that week, in input order
WeekEntries(entries, weekKey) ==
    SelectSeq(entries, LAMBDA e : formatKey(startOfWeek(e.date)) = weekKey)

\* daysWithEntries.get(dateKey) || { date, ..., entries: [], totalHours: 0 }:
\* the map holds the last day stored under the key
CompleteDay(days, date) ==
    LET found == {i \in DOMAIN days : formatKey(days[i].date) = formatKey(date)}
    IN  IF found = {}
        THEN [date |-> date, dayName |-> formatDayName(date),
              entries |-> <<>>, totalHours |-> 0]
        ELSE days[CHOOSE i \in found : \A j \in found : j <= i]

WeeklyTimesheet(weekKey, weekEntries) ==
    LET weekStart == parseISOKey(weekKey)
        weekEnd   == endOfWeek(weekStart)
        days      == groupByDay(weekEntries)
        allDays   == eachDayOfInterval(weekStart, weekEnd)
    IN  [weekStart  |-> weekStart,
         weekEnd    |-> weekEnd,
         days       |-> [i \in DOMAIN allDays |-> CompleteDay(days, allDays[i])],
         totalHours |-> SumHours(weekEntries)]

groupByWeek(entries) ==
    LET sortedKeys ==
            SortKeys({formatKey(startOfWeek(e.date)) : e \in Range(entries)})
    IN  [i \in DOMAIN sortedKeys |->
            WeeklyTimesheet(sortedKeys[i], WeekEntries(entries, sortedKeys[i]))]

(***************************************************************************)
(* Tasks and entries                                                       *)
(*                                                                         *)
(* An optional field is a sequence of at most one value: <<>> when the     *)
(* field is absent (undefined, null or the empty string), <<v>> when it    *)
(* holds v.  An ISO date-time string is the tuple of its fields,           *)
(* <<year, month, day, hour, minute, second>>, read on the local clock.    *)
(* A title is the sequence of its pieces: <<text>>, or <<bucket name, user *)
(* name, date, description>> when the dashboard composed it.               *)
(***************************************************************************)
undefined == <<>>

parseISO(dateTime) ==
    DaysFromCivil(dateTime[1], dateTime[2], dateTime[3]) * SecondsPerDay
        + dateTime[4] * 3600 + dateTime[5] * 60 + dateTime[6]

\* Mutant: the start date is preferred to the due date
EntryDateOf_StartFirst(task) ==
    IF task.startDateTime /= undefined THEN parseISO(task.startDateTime[1])
    ELSE IF task.dueDateTime /= undefined THEN parseISO(task.dueDateTime[1])
    ELSE parseISO(task.createdDateTime)

\* Use due date first, then start date, then created date
EntryDateOf(task) ==
    IF task.dueDateTime /= undefined THEN parseISO(task.dueDateTime[1])
    ELSE IF task.startDateTime /= undefined THEN parseISO(task.startDateTime[1])
    ELSE parseISO(task.createdDateTime)

\* Mutant: the label of the decoder's result is dropped
CategoryLabelOf_Dropped(categoryHours) == undefined

\* categoryLabel: categoryHours?.displayLabel
CategoryLabelOf(categoryHours) ==
    IF categoryHours = null THEN undefined
    ELSE <<categoryHours.displayLabel>>

taskToTimeEntry(task, bucketName) ==
    LET categoryHours == parseHoursFromCategories(task.appliedCategories)
    IN  [id              |-> task.id,
         date            |-> EntryDateOf(task),
         title           |-> task.title,
         description     |-> "",
         hours           |-> EntryHoursOf(categoryHours),
         project         |-> undefined,
         workType        |-> bucketName,
         bucketName      |-> bucketName,
         categoryLabel   |-> CategoryLabelOf(categoryHours),
         isCompleted     |-> task.percentComplete = 100,
         completedDate   |-> IF task.completedDateTime /= undefined
                             THEN <<parseISO(task.completedDateTime[1])>>
                             ELSE undefined,
         dueDate         |-> IF task.dueDateTime /= undefined
                             THEN <<parseISO(task.dueDateTime[1])>>
                             ELSE undefined,
         priority        |-> task.priority,
         percentComplete |-> task.percentComplete,
         checklistItems  |-> <<>>,
         rawTask         |-> task]

addHours(date, amount) == date + amount * 3600

\* Mutant: the range ends with the last second of the end date's day
filterByDateRange_EndOfDay(entries, startDate, endDate) ==
    SelectSeq(entries,
              LAMBDA entry : /\ entry.date >= startDate
                             /\ entry.date <= endDate + SecondsPerDay - 1)

filterByDateRange(entries, startDate, endDate) ==
    SelectSeq(entries,
              LAMBDA entry : /\ entry.date >= startDate
                             /\ entry.date <= addHours(endDate, 23))

(***************************************************************************)
(* Commit estimator                                                        *)
(*                                                                         *)
(* A repo name is held as the sequence of its '_'-free segments:           *)
(* "web" is <<"web">> and "my_repo" is <<"my", "repo">>.  A commit is      *)
(* [sha, date, repo]; a repo configuration is [name, autoCalculate,        *)
(* defaultHours].                                                          *)
(***************************************************************************)
MAX_MINUTES == 4 * 60
MIN_MINUTES == 15

\* [...commits].sort((a, b) => new Date(a.date) - new Date(b.date)) is the
\* same stable ascending sort as SortByDate.

\* Mutant: Math.max(diffMinutes, MIN_MINUTES) without the cap per gap
GapSeconds_NoCap(current, next) ==
    IF next - current > MIN_MINUTES * 60 THEN next - current
    ELSE MIN_MINUTES * 60

\* Math.min(Math.max(diffMinutes, MIN_MINUTES), MAX_MINUTES), in seconds
GapSeconds(current, next) ==
    LET diff == next - current
        low  == IF diff > MIN_MINUTES * 60 THEN diff ELSE MIN_MINUTES * 60
    IN  IF low < MAX_MINUTES * 60 THEN low ELSE MAX_MINUTES * 60

RECURSIVE TotalGapSeconds(_)
TotalGapSeconds(sorted) ==
    IF Len(sorted) < 2 THEN 0
    ELSE GapSeconds(sorted[1].date, sorted[2].date)
            + TotalGapSeconds(Tail(sorted))

\* Mutant: halves round down
RoundHalfHours_Down(seconds) == (seconds + 899) \div 1800

\* Math.round(x) for x = seconds / 1800 >= 0: halves round up
RoundHalfHours(seconds) == (seconds + 900) \div 1800

\* Mutant: no cap at 8 hours
calculateHours_NoCap(commits) ==
    IF Len(commits) = 0 THEN 0
    ELSE IF Len(commits) = 1 THEN 120
    ELSE RoundHalfHours(TotalGapSeconds(SortByDate(commits)) + 30 * 60) * 30

\* Mutant: a single commit takes the general path (no gap, 30 minutes)
calculateHours_NoSingleCase(commits) ==
    IF Len(commits) = 0 THEN 0
    ELSE LET hours ==
                RoundHalfHours(TotalGapSeconds(SortByDate(commits)) + 30 * 60)
                    * 30
         IN  IF hours < 480 THEN hours ELSE 480

\* Math.min(Math.round(totalMinutes / 30) * 0.5, 8), as minutes of an hour value
calculateHours(commits) ==
    IF Len(commits) = 0 THEN 0
    ELSE IF Len(commits) = 1 THEN 120
    ELSE LET sorted       == SortByDate(commits)
             totalSeconds == TotalGapSeconds(sorted) + 30 * 60
             hours        == RoundHalfHours(totalSeconds) * 30
         IN  IF hours < 480 THEN hours ELSE 480

\* Mutant: the key holds the day only
GroupKey_DayOnly(commit) ==
    [dateStr |-> formatKey(startOfDay(commit.date)), repo |-> <<"">>]

\* `${format(date, 'yyyy-MM-dd')}_${commit.repo}`
GroupKey(commit) ==
    [dateStr |-> formatKey(startOfDay(commit.date)), repo |-> commit.repo]

\* The keys of the Map `grouped`, in insertion order
RECURSIVE GroupKeys(_)
GroupKeys(commitsList) ==
    IF commitsList = <<>> THEN <<>>
    ELSE LET before == GroupKeys(SubSeq(commitsList, 1, Len(commitsList) - 1))
             key    == GroupKey(commitsList[Len(commitsList)])
         IN  IF key \in Range(before) THEN before ELSE Append(before, key)

\* const [dateStr, repo] = key.split('_'): the second piece of the key text
SplitRepo(key) == <<Head(key.repo)>>

\* props.repos.find(r => r.name === repo): index of the first match, 0 if none
FindRepo(repos, repo) ==
    LET found == {i \in DOMAIN repos : repos[i].name = repo}
    IN  IF found = {} THEN 0 ELSE MinOf(found)

\* repoConfig?.autoCalculate ? calculateHours(repoCommits)
\*                           : repoConfig?.defaultHours || 2
DraftHours(repos, repo, repoCommits) ==
    LET r == FindRepo(repos, repo)
    IN  IF r /= 0 /\ repos[r].autoCalculate THEN calculateHours(repoCommits)
        ELSE IF r /= 0 /\ repos[r].defaultHours /= 0 THEN repos[r].defaultHours
        ELSE 120

DraftEntry(repos, key, repoCommits) ==
    [id       |-> key,
     date     |-> parseISOKey(key.dateStr),
     repo     |-> SplitRepo(key),
     hours    |-> DraftHours(repos, SplitRepo(key), repoCommits),
     selected |-> TRUE,
     commits  |-> repoCommits]

\* entries.sort((a, b) => b.date.getTime() - a.date.getTime()): stable, descending
RECURSIVE InsertByDateDesc(_, _)
InsertByDateDesc(sorted, e) ==
    IF sorted = <<>> THEN <<e>>
    ELSE IF sorted[Len(sorted)].date >= e.date THEN Append(sorted, e)
    ELSE Append(InsertByDateDesc(SubSeq(sorted, 1, Len(sorted) - 1), e),
                sorted[Len(sorted)])

\* Mutant: the drafts stay in the order of the Map
SortByDateDesc_Unsorted(s) == s

RECURSIVE SortByDateDesc(_)
SortByDateDesc(s) ==
    IF s = <<>> THEN <<>>
    ELSE InsertByDateDesc(SortByDateDesc(SubSeq(s, 1, Len(s) - 1)), s[Len(s)])

processCommits(commitsList, repos) ==
    LET keys == GroupKeys(commitsList)
    IN  SortByDateDesc(
            [i \in DOMAIN keys |->
                DraftEntry(repos, keys[i],
                    SelectSeq(commitsList, LAMBDA c : GroupKey(c) = keys[i]))])

\* The keys of the Map `dailyTotals`, in insertion order
RECURSIVE DailyTotalKeys(_)
DailyTotalKeys(drafts) ==
    IF drafts = <<>> THEN <<>>
    ELSE LET before  == DailyTotalKeys(SubSeq(drafts, 1, Len(drafts) - 1))
             dateKey == formatKey(drafts[Len(drafts)].date)
         IN  IF dateKey \in Range(before) THEN before
             ELSE Append(before, dateKey)

\* dailyTotals.get(dateKey): the hours of all drafts of the day, added up
dailyTotals(drafts, dateKey) ==
    SumHours(SelectSeq(drafts, LAMBDA e : formatKey(e.date) = dateKey))

\* Mutant: a day is flagged when one of its drafts exceeds 8 hours
highDays_PerDraft(drafts) ==
    SelectSeq(DailyTotalKeys(drafts),
              LAMBDA dateKey :
                  \E i \in DOMAIN drafts :
                      /\ formatKey(drafts[i].date) = dateKey
                      /\ drafts[i].hours > 8 * 60)

\* Array.from(dailyTotals.entries()).filter(([_, hours]) => hours > 8)
\*      .map(([date]) => date)
highDays(drafts) ==
    SelectSeq(DailyTotalKeys(drafts),
              LAMBDA dateKey : dailyTotals(drafts, dateKey) > 8 * 60)

\* fetchCommits from the assignment of draftEntries on, for mapped repos:
\* the drafts it leaves in draftEntries and the message it leaves in error
SmartReview(allCommits, repos) ==
    LET draftEntries == processCommits(allCommits, repos)
        high         == highDays(draftEntries)
    IN  [draftEntries |-> draftEntries,
         error |-> IF high /= <<>> THEN <<"High hours detected on", high>>
                   ELSE IF allCommits = <<>>
                        THEN <<"No commits found for author">>
                        ELSE <<>>]

\* entry.hours after adjustHours(entry, delta)
adjustHours(entry, delta) ==
    LET newHours == entry.hours + delta
    IN  IF newHours >= 30 /\ newHours <= 480
        THEN [entry EXCEPT !.hours = newHours]
        ELSE entry

\* for (const chunk of chunks) while (remaining >= chunk) { push; subtract }
RECURSIVE PushChunks(_, _)
PushChunks(chunks, remaining) ==
    IF chunks = <<>> THEN <<>>
    ELSE IF remaining >= chunks[1]
         THEN <<chunks[1]>> \o PushChunks(chunks, remaining - chunks[1])
         ELSE PushChunks(Tail(chunks), remaining)

\* Mutant: the chunks the comment of the function lists (4, 3, 2, 1, 0.5)
hoursToArray_CommentChunks(hours) ==
    LET result == PushChunks(<<240, 180, 120, 60, 30>>, hours)
    IN  IF Len(result) > 0 THEN result ELSE <<hours>>

hoursToArray(hours) ==
    LET result == PushChunks(<<480, 420, 360, 300, 240, 180, 120, 60, 30>>,
                             hours)
    IN  IF Len(result) > 0 THEN result ELSE <<hours>>

(***************************************************************************)
(* Inputs of the calls                                                     *)
(***************************************************************************)
At(y, m, d, hh, mm, ss) ==
    DaysFromCivil(y, m, d) * SecondsPerDay + hh * 3600 + mm * 60 + ss

\* Identifiers a task's appliedCategories may carry: the nine of the category
\* table, one outside both tables, and three of the direct-hour texts.
CategoryKeys ==
    DOMAIN CATEGORY_HOURS_MAP \cup {"category11", "1.5h", "15m", "12h"}

\* Object.entries of a mapping: no identifier occurs twice
CategoryMappings ==
    {c \in SeqsUpTo(CategoryKeys \X BOOLEAN, MaxFlags) :
        \A i, j \in DOMAIN c : i /= j => c[i][1] /= c[j][1]}

RepoWeb == <<"web">>
RepoMyRepo == <<"my", "repo">>
RepoMy == <<"my">>

\* Commit timestamps handed to calculateHours, all on 2024-01-02
CalcTimes ==
    {At(2024, 1, 2, 9, 0, 0), At(2024, 1, 2, 9, 10, 0),
     At(2024, 1, 2, 9, 20, 0), At(2024, 1, 2, 9, 44, 59),
     At(2024, 1, 2, 9, 45, 0), At(2024, 1, 2, 14, 0, 0),
     At(2024, 1, 2, 15, 0, 0), At(2024, 1, 2, 19, 0, 0)}

\* Commit timestamps handed to processCommits, on two days
ProcTimes ==
    {At(2024, 1, 2, 9, 0, 0), At(2024, 1, 2, 9, 10, 0),
     At(2024, 1, 2, 15, 0, 0), At(2024, 1, 3, 9, 0, 0)}

\* The sha of a commit is its place in the fetched list
CommitLists(times, repoNames) ==
    {[i \in DOMAIN s |-> [sha |-> i, date |-> s[i][1], repo |-> s[i][2]]] :
        s \in SeqsUpTo(times \X repoNames, MaxCommits)}

\* What the settings form can leave in one repo's configuration
RepoSettings ==
    {[autoCalculate |-> TRUE, defaultHours |-> 120]} \cup
    {[autoCalculate |-> FALSE, defaultHours |-> h] : h \in {0, 90, 240, 600}}

RepoConfigs ==
    {<<[name |-> RepoWeb, autoCalculate |-> a.autoCalculate,
        defaultHours |-> a.defaultHours],
       [name |-> RepoMyRepo, autoCalculate |-> b.autoCalculate,
        defaultHours |-> b.defaultHours],
       [name |-> RepoMy, autoCalculate |-> FALSE, defaultHours |-> 240]>> :
        a \in RepoSettings,
        b \in {s \in RepoSettings : s.defaultHours \in {90, 120}}}

EntryDates ==
    {At(2023, 12, 31, 10, 0, 0), At(2023, 12, 31, 23, 59, 59),
     At(2024, 1, 1, 0, 0, 0), At(2024, 1, 3, 9, 0, 0),
     At(2024, 1, 8, 8, 0, 0)}

EntryHours == {0, 30}

\* The id of an entry is its place in the list
EntryLists ==
    {[i \in DOMAIN s |-> [id |-> i, date |-> s[i][1], hours |-> s[i][2]]] :
        s \in SeqsUpTo(EntryDates \X EntryHours, MaxEntries)}

\* Entry dates around the two ends of a range
FilterDates ==
    {At(2023, 12, 31, 23, 59, 59), At(2024, 1, 1, 0, 0, 0),
     At(2024, 1, 1, 23, 0, 0), At(2024, 1, 1, 23, 0, 1),
     At(2024, 1, 1, 23, 30, 0), At(2024, 1, 2, 11, 0, 0)}

FilterEntryLists ==
    {[i \in DOMAIN s |-> [id |-> i, date |-> s[i], hours |-> 30]] :
        s \in SeqsUpTo(FilterDates, MaxEntries)}

\* Ranges with a midnight-normalized end and one with an end at noon
FilterRanges ==
    {[startDate |-> At(2024, 1, 1, 0, 0, 0), endDate |-> e] :
        e \in {At(2024, 1, 1, 0, 0, 0), At(2024, 1, 1, 12, 0, 0),
               At(2024, 1, 2, 0, 0, 0)}}

DueDateTimes == {undefined, <<<<2024, 1, 5, 10, 0, 0>>>>, <<<<2024, 1, 2, 0, 0, 0>>>>}
StartDateTimes == {undefined, <<<<2024, 1, 3, 9, 0, 0>>>>, <<<<2024, 1, 5, 10, 0, 0>>>>}
CreatedDateTimes == {<<2024, 1, 1, 8, 30, 0>>, <<2024, 1, 6, 8, 0, 0>>}

TaskCategoryKeys == {"category1", "category4", "category11", "12h"}

TaskCategoryMappings ==
    {c \in CategoryMappings : \A i \in DOMAIN c : c[i][1] \in TaskCategoryKeys}

\* A task as the remote returns it; etag is its '@odata.etag'
Task(id, planId, bucketId, due, start, created, categories, percent, etag) ==
    [id                |-> id,
     planId            |-> planId,
     bucketId          |-> bucketId,
     title             |-> <<"Fix login">>,
     dueDateTime       |-> due,
     startDateTime     |-> start,
     createdDateTime   |-> created,
     completedDateTime |-> IF percent = 100 THEN <<<<2024, 1, 6, 17, 0, 0>>>>
                           ELSE undefined,
     appliedCategories |-> categories,
     percentComplete   |-> percent,
     priority          |-> 5,
     etag              |-> etag]

Tasks ==
    {Task("task1", "planA", "bucketA", due, start, created, categories,
          percent, 1) :
        due \in DueDateTimes, start \in StartDateTimes,
        created \in CreatedDateTimes, categories \in TaskCategoryMappings,
        percent \in {50, 100}}

(***************************************************************************)
(* The remote service                                                      *)
(*                                                                         *)
(* remote is [tasks, failures]: the stored tasks in creation order and the *)
(* number of requests failed so far.  A request is [method, path, ifMatch, *)
(* body], a response [status, value].  An '@odata.etag' is the positive    *)
(* version number of the task, raised by every accepted update.            *)
(***************************************************************************)
RemotePlans ==
    <<[id |-> "planA", title |-> "Plan A"], [id |-> "planB", title |-> "Plan B"]>>

RemoteBuckets ==
    <<[id |-> "bucketA", name |-> "Develop", planId |-> "planA"],
      [id |-> "bucketB", name |-> "Design", planId |-> "planB"]>>

RemoteMe == [id |-> "user1", displayName |-> "Ann"]

\* The tasks of the user when the component is mounted
RemoteTasks ==
    <<Task("task1", "planA", "bucketA", <<<<2024, 1, 5, 0, 0, 0>>>>, undefined,
           <<2024, 1, 1, 8, 30, 0>>, <<<<"category4", TRUE>>>>, 100, 1),
      Task("task2", "planB", "bucketB", undefined, undefined,
           <<2024, 1, 6, 8, 0, 0>>, <<<<"category1", TRUE>>>>, 100, 3)>>

Request(method, path, ifMatch, body) ==
    [method |-> method, path |-> path, ifMatch |-> ifMatch, body |-> body]

Response(status, value) == [status |-> status, value |-> value]

\* One flag written into a mapping: an identifier already there keeps its place
SetFlag(categories, key, flag) ==
    IF \E i \in DOMAIN categories : categories[i][1] = key
    THEN [i \in DOMAIN categories |->
             IF categories[i][1] = key THEN <<key, flag>> ELSE categories[i]]
    ELSE Append(categories, <<key, flag>>)

\* The service merges the flags of an update into the task's flags
RECURSIVE MergeCategories(_, _)
MergeCategories(categories, updates) ==
    IF updates = <<>> THEN categories
    ELSE MergeCategories(SetFlag(categories, updates[1][1], updates[1][2]),
                         Tail(updates))

TaskAt(tasks, id) == {i \in DOMAIN tasks : tasks[i].id = id}

CreatedTask(store, body) ==
    Task("task" \o ToString(Len(store.tasks) + 1), body.planId, body.bucketId,
         <<body.dueDateTime>>, undefined, <<2024, 1, 7, 9, 0, 0>>,
         body.appliedCategories, body.percentComplete, 1)

UpdatedTask(task, body) ==
    [task EXCEPT !.planId = body.planId,
                 !.bucketId = body.bucketId,
                 !.title = body.title,
                 !.dueDateTime = <<body.dueDateTime>>,
                 !.appliedCategories =
                     MergeCategories(@, body.appliedCategories),
                 !.etag = @ + 1]

\* The answer of the service to a request it accepts to look at
Serve(request, store) ==
    LET at == TaskAt(store.tasks, request.path[Len(request.path)])
        i  == CHOOSE k \in at : TRUE
    IN  CASE request.method = "GET" /\ request.path = <<"me">> ->
                 [response |-> Response(200, RemoteMe), remote |-> store]
          [] request.method = "GET" /\ request.path = <<"me", "planner", "plans">> ->
                 [response |-> Response(200, RemotePlans), remote |-> store]
          [] request.method = "GET" /\ request.path = <<"me", "planner", "tasks">> ->
                 [response |-> Response(200, store.tasks), remote |-> store]
          [] request.method = "GET" /\ Len(request.path) = 4 ->
                 [response |->
                      Response(200, SelectSeq(RemoteBuckets,
                                   LAMBDA b : b.planId = request.path[3])),
                  remote |-> store]
          [] request.method = "POST" ->
                 [response |-> Response(201, CreatedTask(store, request.body)),
                  remote |-> [store EXCEPT !.tasks =
                                 Append(@, CreatedTask(store, request.body))]]
          [] request.method \in {"PATCH", "DELETE"} /\ at = {} ->
                 [response |-> Response(404, <<>>), remote |-> store]
          [] request.method \in {"PATCH", "DELETE"} /\ at /= {}
                 /\ request.ifMatch /= <<store.tasks[i].etag>> ->
                 [response |-> Response(412, <<>>), remote |-> store]
          [] request.method = "PATCH" /\ at /= {}
                 /\ request.ifMatch = <<store.tasks[i].etag>> ->
                 [response |->
                      Response(200, UpdatedTask(store.tasks[i], request.body)),
                  remote |-> [store EXCEPT !.tasks[i] =
                                 UpdatedTask(@, request.body)]]
          [] request.method = "DELETE" /\ at /= {}
                 /\ request.ifMatch = <<store.tasks[i].etag>> ->
                 [response |-> Response(204, <<>>),
                  remote |-> [store EXCEPT !.tasks =
                                 SelectSeq(@, LAMBDA t : t.id /= store.tasks[i].id)]]

\* Statuses with which the service may fail a request whatever its content:
\* 403 (no permission) for the list of plans, 429 (rate limit) for all
FailureStatuses(request) ==
    IF request.path = <<"me", "planner", "plans">> THEN {403, 429} ELSE {429}

Outcomes(request, store) ==
    {Serve(request, store)} \cup
    {[response |-> Response(status, <<>>),
      remote |-> [store EXCEPT !.failures = @ + 1]] :
        status \in {s \in FailureStatuses(request) :
                       store.failures < MaxFailures}}

(***************************************************************************)
(* graphService                                                            *)
(*                                                                         *)
(* The result of a service method that has its response: [threw, value]    *)
(* when it returns, [threw, statusCode] when it throws a GraphError.       *)
(***************************************************************************)
fetchWithAuth(response) ==
    IF response.status \in 200..299
    THEN [threw |-> FALSE,
          value |-> IF response.status = 204 THEN null ELSE response.value]
    ELSE [threw |-> TRUE, statusCode |-> response.status]

\* authService.getAccessToken: null (here <<>>) without an account, or when
\* acquireTokenSilent fails; silent is what acquireTokenSilent would give
getAccessToken(account, silent) ==
    IF account = <<>> THEN <<>>
    ELSE IF silent = <<>> THEN <<>>
    ELSE silent

\* Mutant: the request is sent without looking at the token
fetchWithAuthFrom_NoTokenCheck(token, request, response) ==
    [fetched |-> <<request>>] @@ fetchWithAuth(response)

\* fetchWithAuth from its first line: the requests it hands to fetch, and its
\* result when the service answers with response
fetchWithAuthFrom(token, request, response) ==
    IF token = <<>>
    THEN [fetched |-> <<>>, threw |-> TRUE, statusCode |-> 401]
    ELSE [fetched |-> <<request>>] @@ fetchWithAuth(response)

getMeRequest == Request("GET", <<"me">>, <<>>, <<>>)

getPlansRequest == Request("GET", <<"me", "planner", "plans">>, <<>>, <<>>)

getPlans(response) ==
    LET r == fetchWithAuth(response)
    IN  IF r.threw /\ r.statusCode = 403
        THEN [threw |-> FALSE, value |-> <<>>]
        ELSE r

getBucketsRequest(planId) ==
    Request("GET", <<"planner", "plans", planId, "buckets">>, <<>>, <<>>)

getMyTasksRequest == Request("GET", <<"me", "planner", "tasks">>, <<>>, <<>>)

createTaskRequest(task) == Request("POST", <<"planner", "tasks">>, <<>>, task)

\* Mutant: the If-Match header is left out
updateTaskRequest_NoIfMatch(taskId, updates, etag) ==
    Request("PATCH", <<"planner", "tasks", taskId>>, <<>>, updates)

updateTaskRequest(taskId, updates, etag) ==
    Request("PATCH", <<"planner", "tasks", taskId>>, <<etag>>, updates)

deleteTaskRequest(taskId, etag) ==
    Request("DELETE", <<"planner", "tasks", taskId>>, <<etag>>, <<>>)

(***************************************************************************)
(* The root component and the daily view                                   *)
(*                                                                         *)
(* A handler activation is [fn, args, pc, request, response, sent, k]: pc  *)
(* names the service method it awaits ("done" when it has settled),        *)
(* request is the request in flight, response is <<>> until the service    *)
(* has answered, sent lists the requests it issued, and k is the place of  *)
(* loadPlans in its loop over the plans.                                   *)
(***************************************************************************)
NewCall(fn, args) ==
    [fn |-> fn, args |-> args, pc |-> "start", request |-> <<>>,
     response |-> <<>>, sent |-> <<>>, k |-> 0]

Await(call, method, request) ==
    [call EXCEPT !.pc = method, !.request = request, !.response = <<>>,
                 !.sent = Append(@, request)]

Settled(call) == [call EXCEPT !.pc = "done", !.response = <<>>]

\* The template shows the view only when neither the spinner nor the error
\* banner is shown (v-if / v-else-if chain; the user is signed in).  While
\* the edit form is shown, its overlay covers the buttons of the view.
ViewShown == ~isInitializing /\ error = <<>>

hoursCategoryMap ==
    (30 :> "category1") @@ (60 :> "category2") @@ (120 :> "category3")
        @@ (180 :> "category4") @@ (240 :> "category5") @@ (300 :> "category6")
        @@ (360 :> "category7") @@ (420 :> "category8") @@ (480 :> "category9")

\* for (const hour of entryData.hours) appliedCategories[category] = true
RECURSIVE SetSelectedHours(_, _)
SetSelectedHours(appliedCategories, hours) ==
    IF hours = <<>> THEN appliedCategories
    ELSE SetSelectedHours(
             IF hours[1] \in DOMAIN hoursCategoryMap
             THEN SetFlag(appliedCategories, hoursCategoryMap[hours[1]], TRUE)
             ELSE appliedCategories,
             Tail(hours))

\* Mutant: the old flags are not cleared, as in handleAddEntry
ClearedCategories_None == <<>>

\* All nine flags false, in the order the object literal lists them
ClearedCategories ==
    [i \in 1..9 |-> <<"category" \o ToString(i), FALSE>>]

toISOString(date) ==
    LET c == CivilFromDays(DayNumber(date))
        s == date % SecondsPerDay
    IN  <<c.y, c.m, c.d, s \div 3600, (s % 3600) \div 60, s % 60>>

\* `${day}/${month}/${year}`; the padding of day and month is left out
FormattedDate(dueDate) ==
    LET c == CivilFromDays(DayNumber(dueDate)) IN <<c.d, c.m, c.y>>

FindBucket(bucketId, projectId) ==
    {b \in Range(buckets) : b.id = bucketId /\ b.planId = projectId}

\* The task handleAddEntry hands to createTask
NewTaskBody(entryData, bucket, me) ==
    [planId            |-> entryData.projectId,
     bucketId          |-> entryData.bucketId,
     title             |-> <<bucket.name, me.displayName,
                             FormattedDate(startOfDay(entryData.date)),
                             entryData.description>>,
     dueDateTime       |-> toISOString(startOfDay(entryData.date)),
     priority          |-> 5,
     percentComplete   |-> 100,
     appliedCategories |-> SetSelectedHours(<<>>, entryData.hours)]

\* The updates handleEditEntry hands to updateTask
EditTaskBody(entryData, bucket, me) ==
    [planId            |-> entryData.projectId,
     bucketId          |-> entryData.bucketId,
     title             |-> <<bucket.name, me.displayName,
                             FormattedDate(startOfDay(entryData.date)),
                             entryData.description>>,
     dueDateTime       |-> toISOString(startOfDay(entryData.date)),
     appliedCategories |-> SetSelectedHours(ClearedCategories, entryData.hours)]

\* myTasks.map(task => taskToTimeEntry(task, bucket?.name)), newest first
LoadedEntries(myTasks) ==
    SortByDateDesc(
        [i \in DOMAIN myTasks |->
            taskToTimeEntry(
                myTasks[i],
                LET found == {b \in Range(buckets) : b.id = myTasks[i].bucketId}
                IN  IF found = {} THEN undefined
                    ELSE <<(CHOOSE b \in found : TRUE).name>>)])

\* The message the catch block of a handler puts into error
CatchMessage(fn) ==
    CASE fn = "handleAddEntry" -> "Failed to add time entry. Please try again."
      [] fn = "handleEditEntry" -> "Failed to update time entry. Please try again."
      [] fn = "handleDeleteEntry" -> "Failed to delete time entry. Please try again."

(***************************************************************************)
(* The edit form of the daily view                                         *)
(***************************************************************************)
ClosedForm ==
    [showEditForm |-> FALSE, editingEntry |-> <<>>, editTaskId |-> "",
     editEtag |-> 0, editProjectId |-> "", editBucketId |-> "",
     editDescription |-> "", editSelectedHours |-> <<>>, editDate |-> 0]

\* The error banner replaces the view, and with it the form's state
FormUnder(newError, f) == IF newError /= <<>> THEN ClosedForm ELSE f

extractDescriptionFromTitle(title) == title[Len(title)]

RECURSIVE SortHours(_)
SortHours(hours) ==
    IF hours = <<>> THEN <<>>
    ELSE LET least == MinOf(Range(hours))
             at    == MinOf({i \in DOMAIN hours : hours[i] = least})
         IN  <<least>> \o SortHours([i \in 1..(Len(hours) - 1) |->
                                        IF i < at THEN hours[i] ELSE hours[i + 1]])

parseHoursArrayFromCategories(categories) ==
    LET active == SelectSeq(categories,
                            LAMBDA c : c[2] /\ c[1] \in DOMAIN CATEGORY_HOURS_MAP)
    IN  SortHours([i \in DOMAIN active |-> CATEGORY_HOURS_MAP[active[i][1]]])

(***************************************************************************)
(* Handlers of the daily root component                                    *)
(***************************************************************************)
CanStart == Len(calls) < MaxCalls + 1

\* loadEntries up to its await: loading.value = true, getMyTasks(3)
LoadEntriesFrom(call) == Await(call, "getMyTasks", getMyTasksRequest)

\* The catch and finally blocks of handleAddEntry, handleEditEntry and
\* handleDeleteEntry
CatchAndSettle(i) ==
    /\ error' = <<CatchMessage(calls[i].fn)>>
    /\ loading' = FALSE
    /\ calls' = [calls EXCEPT ![i] = Settled(@)]
    /\ form' = ClosedForm
    /\ UNCHANGED <<app, plans, buckets, entriesRef, allMyTasks,
                   selectedPlanId, isInitializing>>

\* The user presses the refresh button (disabled while loading)
HandleRefresh ==
    /\ app = "daily" /\ ViewShown /\ CanStart
    /\ ~form.showEditForm
    /\ ~loading
    /\ loading' = TRUE
    /\ calls' = Append(calls, LoadEntriesFrom(NewCall("handleRefresh", <<>>)))
    /\ UNCHANGED <<app, remote, plans, buckets, entriesRef, allMyTasks,
                   selectedPlanId, error, isInitializing, form>>
    /\ UNCHANGED callVars

\* The add form as the user fills it: the first plan and a loaded bucket of
\* it, a description, the default selection of 2 hours
AddEntryInputs ==
    {[projectId |-> b.planId, bucketId |-> b.id, description |-> "Review",
      hours |-> <<120>>, date |-> At(2024, 1, 4, 0, 0, 0)] :
        b \in {x \in Range(buckets) : x.planId = RemotePlans[1].id}}

\* The view's handleAddEntry emits addEntry; the root's handleAddEntry runs
\* up to its first await.
HandleAddEntry ==
    /\ app = "daily" /\ ViewShown /\ CanStart
    /\ ~form.showEditForm
    /\ \E entryData \in AddEntryInputs :
           LET call == NewCall("handleAddEntry", entryData)
           IN  IF FindBucket(entryData.bucketId, entryData.projectId) = {}
               THEN /\ error' = <<CatchMessage("handleAddEntry")>>
                    /\ loading' = FALSE
                    /\ calls' = Append(calls, Settled(call))
                    /\ form' = ClosedForm
               ELSE /\ error' = <<>>
                    /\ loading' = TRUE
                    /\ calls' = Append(calls, Await(call, "getMe", getMeRequest))
                    /\ form' = form
    /\ UNCHANGED <<app, remote, plans, buckets, entriesRef, allMyTasks,
                   selectedPlanId, isInitializing>>
    /\ UNCHANGED callVars

\* The user presses the edit button of an entry (the nextTick callback that
\* restores the bucket has run)
OpenEditForm ==
    /\ app = "daily" /\ ViewShown /\ CanStart
    /\ ~form.showEditForm
    /\ \E i \in DOMAIN entriesRef :
           LET entry == entriesRef[i]
           IN  form' = [showEditForm      |-> TRUE,
                        editingEntry      |-> <<entry>>,
                        editTaskId        |-> entry.id,
                        editEtag          |-> entry.rawTask.etag,
                        editProjectId     |-> entry.rawTask.planId,
                        editBucketId      |-> entry.rawTask.bucketId,
                        editDescription   |-> extractDescriptionFromTitle(entry.title),
                        editSelectedHours |->
                            parseHoursArrayFromCategories(
                                entry.rawTask.appliedCategories),
                        editDate          |-> entry.date]
    /\ UNCHANGED <<app, remote, plans, buckets, entriesRef, allMyTasks,
                   selectedPlanId, loading, error, isInitializing, calls>>
    /\ UNCHANGED callVars

CloseEditForm ==
    /\ app = "daily" /\ ViewShown
    /\ form.showEditForm
    /\ form' = ClosedForm
    /\ UNCHANGED <<app, remote, plans, buckets, entriesRef, allMyTasks,
                   selectedPlanId, loading, error, isInitializing, calls>>
    /\ UNCHANGED callVars

\* The view's handleEditSubmit emits editEntry and closes the form; the
\* root's handleEditEntry runs up to its first await.
HandleEditSubmit ==
    /\ app = "daily" /\ ViewShown /\ CanStart
    /\ form.showEditForm
    /\ form.editTaskId /= "" /\ form.editBucketId /= ""
    /\ form.editDescription /= ""
    /\ form.editSelectedHours /= <<>>
    /\ LET entryData == [taskId      |-> form.editTaskId,
                         etag        |-> form.editEtag,
                         projectId   |-> form.editProjectId,
                         bucketId    |-> form.editBucketId,
                         description |-> form.editDescription,
                         hours       |-> form.editSelectedHours,
                         date        |-> form.editDate]
           call == NewCall("handleEditEntry", entryData)
       IN  IF FindBucket(entryData.bucketId, entryData.projectId) = {}
           THEN /\ error' = <<CatchMessage("handleEditEntry")>>
                /\ loading' = FALSE
                /\ calls' = Append(calls, Settled(call))
           ELSE /\ error' = <<>>
                /\ loading' = TRUE
                /\ calls' = Append(calls, Await(call, "getMe", getMeRequest))
    /\ form' = ClosedForm
    /\ UNCHANGED <<app, remote, plans, buckets, entriesRef, allMyTasks,
                   selectedPlanId, isInitializing>>
    /\ UNCHANGED callVars

\* The user presses the delete button of an entry and confirms; the root's
\* handleDeleteEntry runs up to its await.
HandleDelete ==
    /\ app = "daily" /\ ViewShown /\ CanStart
    /\ ~form.showEditForm
    /\ \E i \in DOMAIN entriesRef :
           LET entry == entriesRef[i]
               etag  == entry.rawTask.etag
           IN  /\ etag /= 0
               /\ calls' = Append(calls,
                      Await(NewCall("handleDeleteEntry",
                                    [taskId |-> entry.id, etag |-> etag]),
                            "deleteTask", deleteTaskRequest(entry.id, etag)))
    /\ loading' = TRUE
    /\ error' = <<>>
    /\ UNCHANGED <<app, remote, plans, buckets, entriesRef, allMyTasks,
                   selectedPlanId, isInitializing, form>>
    /\ UNCHANGED callVars

\* The Dismiss button of the error banner
DismissError ==
    /\ app /= "none" /\ ~isInitializing
    /\ error /= <<>>
    /\ error' = <<>>
    /\ UNCHANGED <<app, remote, plans, buckets, entriesRef, allMyTasks,
                   selectedPlanId, loading, isInitializing, calls, form>>
    /\ UNCHANGED callVars

\* The request that reads the tasks: what the service answers depends on
\* when it handles the request.
ReadsTasks(request) == request = getMyTasksRequest

\* The service handles the getMyTasks request of an activation; the response
\* is then on its way to the handler.
Respond ==
    \E i \in DOMAIN calls :
        /\ calls[i].pc /= "done" /\ calls[i].response = <<>>
        /\ ReadsTasks(calls[i].request)
        /\ \E outcome \in Outcomes(calls[i].request, remote) :
               /\ remote' = outcome.remote
               /\ calls' = [calls EXCEPT ![i].response = <<outcome.response>>]
        /\ UNCHANGED <<app, plans, buckets, entriesRef, allMyTasks,
                       selectedPlanId, loading, error, isInitializing, form>>
        /\ UNCHANGED callVars

\* The response to the task request of activation i has arrived
Answered(i, fns, method) ==
    /\ calls[i].fn \in fns
    /\ calls[i].pc = method
    /\ calls[i].response /= <<>>

\* Activation i awaits a request for the profile, the plans or the buckets,
\* or a write of one task.  The answer to the former does not depend on when
\* the service handles the request, and a write is taken to reach the store
\* when its response reaches the handler: the service's step and the
\* handler's resumption are one step.
Awaits(i, fns, method) ==
    /\ calls[i].fn \in fns
    /\ calls[i].pc = method

\* loadPlans of the daily component resumes with the plans
ResumeLoadPlans ==
    \E i \in DOMAIN calls :
        /\ app = "daily" /\ Awaits(i, {"loadPlans"}, "getPlans")
        /\ \E outcome \in Outcomes(calls[i].request, remote) :
               LET r == getPlans(outcome.response)
               IN  /\ remote' = outcome.remote
                   /\ IF r.threw
                      THEN /\ plans' = <<>>
                           /\ loading' = FALSE
                           /\ isInitializing' = FALSE
                           /\ calls' = [calls EXCEPT ![i] = Settled(@)]
                      ELSE /\ plans' = r.value
                           /\ loading' = TRUE
                           /\ isInitializing' = isInitializing
                           /\ calls' = [calls EXCEPT ![i] =
                                 IF r.value = <<>> THEN LoadEntriesFrom(@)
                                 ELSE Await([@ EXCEPT !.k = 1], "getBuckets",
                                            getBucketsRequest(r.value[1].id))]
        /\ UNCHANGED <<app, buckets, entriesRef, allMyTasks,
                       selectedPlanId, error, form>>
        /\ UNCHANGED callVars

\* loadPlans resumes with the buckets of one plan, or with the failure of
\* that request, which it only logs
ResumeLoadPlanBuckets ==
    \E i \in DOMAIN calls :
        /\ app = "daily" /\ Awaits(i, {"loadPlans"}, "getBuckets")
        /\ \E outcome \in Outcomes(calls[i].request, remote) :
               LET r == fetchWithAuth(outcome.response)
                   k == calls[i].k
               IN  /\ remote' = outcome.remote
                   /\ buckets' = IF r.threw THEN buckets ELSE buckets \o r.value
                   /\ calls' = [calls EXCEPT ![i] =
                          IF k < Len(plans)
                          THEN Await([@ EXCEPT !.k = k + 1], "getBuckets",
                                     getBucketsRequest(plans[k + 1].id))
                          ELSE LoadEntriesFrom(@)]
        /\ loading' = TRUE
        /\ UNCHANGED <<app, plans, entriesRef, allMyTasks,
                       selectedPlanId, error, isInitializing, form>>
        /\ UNCHANGED callVars

\* handleAddEntry and handleEditEntry resume with the user's profile
ResumeGetMe ==
    \E i \in DOMAIN calls :
        /\ app = "daily"
        /\ Awaits(i, {"handleAddEntry", "handleEditEntry"}, "getMe")
        /\ \E outcome \in Outcomes(calls[i].request, remote) :
               LET r == fetchWithAuth(outcome.response)
                   entryData == calls[i].args
                   bucket == CHOOSE b \in
                                 FindBucket(entryData.bucketId,
                                            entryData.projectId) : TRUE
               IN  /\ remote' = outcome.remote
                   /\ IF r.threw THEN CatchAndSettle(i)
                      ELSE /\ calls' = [calls EXCEPT ![i] =
                                 IF @.fn = "handleAddEntry"
                                 THEN Await(@, "createTask",
                                          createTaskRequest(
                                              NewTaskBody(entryData, bucket,
                                                          r.value)))
                                 ELSE Await(@, "updateTask",
                                          updateTaskRequest(
                                              entryData.taskId,
                                              EditTaskBody(entryData, bucket,
                                                           r.value),
                                              entryData.etag))]
                           /\ UNCHANGED <<app, plans, buckets, entriesRef,
                                          allMyTasks, selectedPlanId, loading,
                                          error, isInitializing, form>>
        /\ UNCHANGED callVars

\* Mutant: after a rejected write the handler sets its message and fetches
\* the entries again
ResumeWrite_Refetch ==
    \E i \in DOMAIN calls :
        /\ app = "daily"
        /\ \/ Awaits(i, {"handleAddEntry"}, "createTask")
           \/ Awaits(i, {"handleEditEntry"}, "updateTask")
           \/ Awaits(i, {"handleDeleteEntry"}, "deleteTask")
        /\ \E outcome \in Outcomes(calls[i].request, remote) :
               /\ remote' = outcome.remote
               /\ error' = IF fetchWithAuth(outcome.response).threw
                           THEN <<CatchMessage(calls[i].fn)>>
                           ELSE error
               /\ loading' = TRUE
               /\ calls' = [calls EXCEPT ![i] = LoadEntriesFrom(@)]
               /\ form' = FormUnder(error', form)
               /\ UNCHANGED <<app, plans, buckets, entriesRef, allMyTasks,
                              selectedPlanId, isInitializing>>
        /\ UNCHANGED callVars

\* A handler resumes after createTask, updateTask or deleteTask: it refreshes
\* the entries, or, when the service rejected the write, goes to its catch
ResumeWrite ==
    \E i \in DOMAIN calls :
        /\ app = "daily"
        /\ \/ Awaits(i, {"handleAddEntry"}, "createTask")
           \/ Awaits(i, {"handleEditEntry"}, "updateTask")
           \/ Awaits(i, {"handleDeleteEntry"}, "deleteTask")
        /\ \E outcome \in Outcomes(calls[i].request, remote) :
               /\ remote' = outcome.remote
               /\ IF fetchWithAuth(outcome.response).threw
                  THEN CatchAndSettle(i)
                  ELSE /\ loading' = TRUE
                       /\ calls' = [calls EXCEPT ![i] = LoadEntriesFrom(@)]
                       /\ UNCHANGED <<app, plans, buckets, entriesRef,
                                      allMyTasks, selectedPlanId, error,
                                      isInitializing, form>>
        /\ UNCHANGED callVars

\* Mutant: a response is dropped when an activation started later has
\* already fetched the tasks and settled
ResumeLoadEntries_DiscardLate ==
    \E i \in DOMAIN calls :
        /\ app = "daily"
        /\ Answered(i, {"loadPlans", "handleRefresh", "handleAddEntry",
                        "handleEditEntry", "handleDeleteEntry"}, "getMyTasks")
        /\ LET r == fetchWithAuth(calls[i].response[1])
               late == \E j \in DOMAIN calls :
                           /\ j > i /\ calls[j].pc = "done"
                           /\ getMyTasksRequest \in Range(calls[j].sent)
           IN  /\ entriesRef' = IF r.threw \/ late THEN entriesRef
                                ELSE LoadedEntries(r.value)
               /\ error' = IF r.threw
                           THEN <<"Failed to load tasks. Please try again.">>
                           ELSE error
        /\ loading' = FALSE
        /\ isInitializing' = IF calls[i].fn = "loadPlans" THEN FALSE
                             ELSE isInitializing
        /\ calls' = [calls EXCEPT ![i] = Settled(@)]
        /\ form' = FormUnder(error', form)
        /\ UNCHANGED <<app, remote, plans, buckets, allMyTasks, selectedPlanId>>
        /\ UNCHANGED callVars

\* loadEntries resumes with the tasks, and its caller returns
ResumeLoadEntries ==
    \E i \in DOMAIN calls :
        /\ app = "daily"
        /\ Answered(i, {"loadPlans", "handleRefresh", "handleAddEntry",
                        "handleEditEntry", "handleDeleteEntry"}, "getMyTasks")
        /\ LET r == fetchWithAuth(calls[i].response[1])
           IN  /\ entriesRef' = IF r.threw THEN entriesRef
                                ELSE LoadedEntries(r.value)
               /\ error' = IF r.threw
                           THEN <<"Failed to load tasks. Please try again.">>
                           ELSE error
        /\ loading' = FALSE
        /\ isInitializing' = IF calls[i].fn = "loadPlans" THEN FALSE
                             ELSE isInitializing
        /\ calls' = [calls EXCEPT ![i] = Settled(@)]
        /\ form' = FormUnder(error', form)
        /\ UNCHANGED <<app, remote, plans, buckets, allMyTasks, selectedPlanId>>
        /\ UNCHANGED callVars

(***************************************************************************)
(* Handlers of the root component with a plan selector ("plans"); its      *)
(* bucket filter and its create-task modal are not part of the model.      *)
(***************************************************************************)
\* loadPlans of this component resumes with the plans
ResumePlansOnly ==
    \E i \in DOMAIN calls :
        /\ app = "plans" /\ Awaits(i, {"loadPlans"}, "getPlans")
        /\ \E outcome \in Outcomes(calls[i].request, remote) :
               LET r == getPlans(outcome.response)
               IN  /\ remote' = outcome.remote
                   /\ plans' = IF r.threw THEN <<>> ELSE r.value
        /\ loading' = FALSE
        /\ isInitializing' = FALSE
        /\ calls' = [calls EXCEPT ![i] = Settled(@)]
        /\ UNCHANGED <<app, buckets, entriesRef, allMyTasks,
                       selectedPlanId, error, form>>
        /\ UNCHANGED callVars

\* loadPlanData up to its first await
LoadPlanDataFrom(call, planId) ==
    Await(call, "getBuckets", getBucketsRequest(planId))

\* The user picks a plan, or the empty option, in the selector; the watcher
\* of selectedPlanId runs.
SelectPlan ==
    /\ app = "plans" /\ ViewShown /\ CanStart
    /\ \E newPlanId \in {<<>>} \cup {<<plans[i].id>> : i \in DOMAIN plans} :
           /\ newPlanId /= selectedPlanId
           /\ selectedPlanId' = newPlanId
           /\ IF newPlanId = <<>>
              THEN /\ buckets' = <<>>
                   /\ entriesRef' = <<>>
                   /\ allMyTasks' = <<>>
                   /\ UNCHANGED <<loading, error, calls>>
              ELSE /\ loading' = TRUE
                   /\ error' = <<>>
                   /\ calls' = Append(calls,
                          LoadPlanDataFrom(
                              NewCall("loadPlanData", [planId |-> newPlanId[1]]),
                              newPlanId[1]))
                   /\ UNCHANGED <<buckets, entriesRef, allMyTasks>>
    /\ UNCHANGED <<app, remote, plans, isInitializing, form>>
    /\ UNCHANGED callVars

\* The refresh button (disabled while loading or without a plan)
HandleRefreshPlan ==
    /\ app = "plans" /\ ViewShown /\ CanStart
    /\ ~loading /\ selectedPlanId /= <<>>
    /\ loading' = TRUE
    /\ error' = <<>>
    /\ calls' = Append(calls,
           LoadPlanDataFrom(
               NewCall("loadPlanData", [planId |-> selectedPlanId[1]]),
               selectedPlanId[1]))
    /\ UNCHANGED <<app, remote, plans, buckets, entriesRef, allMyTasks,
                   selectedPlanId, isInitializing, form>>
    /\ UNCHANGED callVars

\* The catch and finally blocks of loadPlanData; a GraphError without a
\* message of the service reads "HTTP <status>"
CatchLoadPlanData(i, r) ==
    /\ error' = IF r.statusCode = 429
                THEN <<"Too many requests. Please wait a moment and try again.">>
                ELSE <<"Failed to load tasks. Please try again.">>
    /\ entriesRef' = <<>>
    /\ allMyTasks' = <<>>
    /\ loading' = FALSE
    /\ calls' = [calls EXCEPT ![i] = Settled(@)]

\* loadPlanData resumes with the buckets of the plan
ResumePlanBuckets ==
    \E i \in DOMAIN calls :
        /\ app = "plans" /\ Awaits(i, {"loadPlanData"}, "getBuckets")
        /\ \E outcome \in Outcomes(calls[i].request, remote) :
               LET r == fetchWithAuth(outcome.response)
               IN  /\ remote' = outcome.remote
                   /\ IF r.threw
                      THEN CatchLoadPlanData(i, r) /\ UNCHANGED buckets
                      ELSE /\ buckets' = r.value
                           /\ calls' = [calls EXCEPT ![i] = LoadEntriesFrom(@)]
                           /\ UNCHANGED <<entriesRef, allMyTasks, loading, error>>
        /\ UNCHANGED <<app, plans, selectedPlanId, isInitializing, form>>
        /\ UNCHANGED callVars

\* planTasks.map(task => taskToTimeEntry(task, bucketNameMap.get(..) ||
\* 'Unknown')), newest first
PlanEntries(planTasks) ==
    SortByDateDesc(
        [i \in DOMAIN planTasks |->
            taskToTimeEntry(
                planTasks[i],
                LET found == {b \in Range(buckets) : b.id = planTasks[i].bucketId}
                IN  IF found = {} THEN <<"Unknown">>
                    ELSE <<(CHOOSE b \in found : TRUE).name>>)])

\* loadPlanData resumes with the user's tasks
ResumePlanTasks ==
    \E i \in DOMAIN calls :
        /\ app = "plans" /\ Answered(i, {"loadPlanData"}, "getMyTasks")
        /\ LET r == fetchWithAuth(calls[i].response[1])
               planTasks == SelectSeq(r.value,
                                LAMBDA t : t.planId = calls[i].args.planId)
           IN  IF r.threw
               THEN CatchLoadPlanData(i, r)
               ELSE /\ allMyTasks' = PlanEntries(planTasks)
                    /\ entriesRef' = PlanEntries(planTasks)
                    /\ loading' = FALSE
                    /\ calls' = [calls EXCEPT ![i] = Settled(@)]
                    /\ UNCHANGED error
        /\ UNCHANGED <<app, remote, plans, buckets, selectedPlanId,
                       isInitializing, form>>
        /\ UNCHANGED callVars

(***************************************************************************)
(* The components: a behaviour starts when one of the two root components  *)
(* is mounted with the user signed in, and loadPlans awaits the plans.     *)
(***************************************************************************)
InitApp ==
    /\ op = "none" /\ input = <<>> /\ pc = "idle" /\ output = <<>>
    /\ app \in {"daily", "plans"}
    /\ remote = [tasks |-> RemoteTasks, failures |-> 0]
    /\ plans = <<>>
    /\ buckets = <<>>
    /\ entriesRef = <<>>
    /\ allMyTasks = <<>>
    /\ selectedPlanId = <<>>
    /\ loading = TRUE
    /\ error = <<>>
    /\ isInitializing = TRUE
    /\ calls = <<Await(NewCall("loadPlans", <<>>), "getPlans", getPlansRequest)>>
    /\ form = ClosedForm

NextApp ==
    \/ HandleRefresh
    \/ HandleAddEntry
    \/ OpenEditForm
    \/ CloseEditForm
    \/ HandleEditSubmit
    \/ HandleDelete
    \/ DismissError
    \/ Respond
    \/ ResumeLoadPlans
    \/ ResumeLoadPlanBuckets
    \/ ResumeGetMe
    \/ ResumeWrite
    \/ ResumeLoadEntries
    \/ ResumePlansOnly
    \/ SelectPlan
    \/ HandleRefreshPlan
    \/ ResumePlanBuckets
    \/ ResumePlanTasks

SpecApp == InitApp /\ [][NextApp]_vars

(***************************************************************************)
(* The calls: a behaviour is one call of one function.  Init draws the      *)
(* function and its arguments, the function's action returns its value.     *)
(***************************************************************************)
\* No component runs while a function is called
AppIdle ==
    /\ app = "none"
    /\ remote = <<>>
    /\ plans = <<>>
    /\ buckets = <<>>
    /\ entriesRef = <<>>
    /\ allMyTasks = <<>>
    /\ selectedPlanId = <<>>
    /\ loading = FALSE
    /\ error = <<>>
    /\ isInitializing = FALSE
    /\ calls = <<>>
    /\ form = <<>>

\* What the hour buttons of the edit form can leave selected: ascending,
\* not empty, no value twice
EditSelections ==
    {s \in SeqsUpTo(DOMAIN hoursCategoryMap, MaxFlags) :
        /\ s /= <<>>
        /\ \A i, j \in DOMAIN s : i < j => s[i] < s[j]}

\* Statuses the service answers with
ResponseStatuses == {200, 201, 204, 400, 401, 403, 404, 412, 429, 500}

\* Calls of fetchWithAuth: whether an account is signed in, what the silent
\* token acquisition gives, the request and the answer of the service
FetchCalls ==
    [account  : {<<>>, <<"ann">>},
     silent   : {<<>>, <<"token">>},
     request  : {getMeRequest, getMyTasksRequest,
                 deleteTaskRequest("task1", 1)},
     response : {Response(status, IF status = 200 THEN RemoteMe ELSE <<>>) :
                    status \in ResponseStatuses}]

\* Hours a draft can hold: the half hours up to 8, and what a configured
\* defaultHours can put outside them
DraftHourValues == {30 * k : k \in 1..16} \cup {15, 45, 510, 600}

Init ==
    /\ AppIdle
    /\ pc = "call"
    /\ output = <<>>
    /\ \/ op = "parseHoursFromCategories" /\ input \in CategoryMappings
       \/ op = "calculateHours"
            /\ input \in CommitLists(CalcTimes, {RepoWeb})
       \/ op = "processCommits"
            /\ input \in [commitsList :
                              CommitLists(ProcTimes, {RepoWeb, RepoMyRepo}),
                          repos : RepoConfigs]
       \/ op \in {"groupByDay", "groupByWeek"} /\ input \in EntryLists
       \/ op = "filterByDateRange"
            /\ input \in [entries : FilterEntryLists, range : FilterRanges]
       \/ op = "taskToTimeEntry"
            /\ input \in [task : Tasks, bucketName : {<<"Develop">>}]
       \/ op = "handleEditEntry"
            /\ input \in [hours : EditSelections,
                          categories : TaskCategoryMappings]
       \/ op = "fetchWithAuth" /\ input \in FetchCalls
       \/ op = "hoursToArray" /\ input \in DraftHourValues
       \/ op = "adjustHours"
            /\ input \in [hours : DraftHourValues, delta : {-30, 30}]
       \/ op = "fetchCommits"
            /\ input \in [commitsList :
                              CommitLists(ProcTimes, {RepoWeb, RepoMyRepo}),
                          repos : RepoConfigs]

Return(value) ==
    /\ pc = "call"
    /\ pc' = "done"
    /\ output' = value
    /\ UNCHANGED <<op, input>>
    /\ UNCHANGED appVars

CallParseHoursFromCategories ==
    /\ op = "parseHoursFromCategories"
    /\ Return(parseHoursFromCategories(input))

CallCalculateHours ==
    /\ op = "calculateHours"
    /\ Return(calculateHours(input))

CallProcessCommits ==
    /\ op = "processCommits"
    /\ Return(processCommits(input.commitsList, input.repos))

CallGroupByDay ==
    /\ op = "groupByDay"
    /\ Return(groupByDay(input))

CallGroupByWeek ==
    /\ op = "groupByWeek"
    /\ Return(groupByWeek(input))

CallFilterByDateRange ==
    /\ op = "filterByDateRange"
    /\ Return(filterByDateRange(input.entries, input.range.startDate,
                                input.range.endDate))

CallTaskToTimeEntry ==
    /\ op = "taskToTimeEntry"
    /\ Return(taskToTimeEntry(input.task, input.bucketName))

\* fetchCommits once every repo has answered with its commits
CallSmartReview ==
    /\ op = "fetchCommits"
    /\ Return(SmartReview(input.commitsList, input.repos))

\* handleEditEntry on a task that carries input.categories, with the token
\* of the task: the updates it sends and the task the service then holds
CallHandleEditEntry ==
    /\ op = "handleEditEntry"
    /\ LET task == Task("task1", "planA", "bucketA",
                        <<<<2024, 1, 5, 0, 0, 0>>>>, undefined,
                        <<2024, 1, 1, 8, 30, 0>>, input.categories, 100, 1)
           entryData == [taskId      |-> task.id,
                         etag        |-> task.etag,
                         projectId   |-> task.planId,
                         bucketId    |-> task.bucketId,
                         description |-> "Review",
                         hours       |-> input.hours,
                         date        |-> At(2024, 1, 5, 0, 0, 0)]
           updates == EditTaskBody(entryData, RemoteBuckets[1], RemoteMe)
       IN  Return([updates |-> updates, task |-> UpdatedTask(task, updates)])

CallFetchWithAuth ==
    /\ op = "fetchWithAuth"
    /\ Return(fetchWithAuthFrom(getAccessToken(input.account, input.silent),
                                input.request, input.response))

CallHoursToArray ==
    /\ op = "hoursToArray"
    /\ Return(hoursToArray(input))

\* The - and + buttons of a draft: adjustHours(entry, -0.5 | 0.5)
CallAdjustHours ==
    /\ op = "adjustHours"
    /\ Return(adjustHours([hours |-> input.hours, selected |-> TRUE],
                          input.delta))

Next ==
    \/ CallParseHoursFromCategories
    \/ CallCalculateHours
    \/ CallProcessCommits
    \/ CallGroupByDay
    \/ CallGroupByWeek
    \/ CallFilterByDateRange
    \/ CallTaskToTimeEntry
    \/ CallSmartReview
    \/ CallHoursToArray
    \/ CallAdjustHours
    \/ CallFetchWithAuth
    \/ CallHandleEditEntry

Spec == Init /\ [][Next]_vars

(***************************************************************************)
(* The add form of the daily view, on its own: form is [showAddForm,       *)
(* selectedProjectId, selectedBucketId, description, selectedHours,        *)
(* entryDate], and output is what the last submitted entry became: the     *)
(* payload the view emitted and the entry built from the task the root     *)
(* component created with it.                                              *)
(***************************************************************************)
\* v-for="h in [0.5, 1, 2, 3, 4, 5, 6, 7, 8]"
HourButtons == {30, 60, 120, 180, 240, 300, 360, 420, 480}

\* currentHours.splice(index, 1) at index = currentHours.indexOf(hour)
SpliceHour(currentHours, hour) ==
    LET index == MinOf({i \in DOMAIN currentHours : currentHours[i] = hour})
    IN  [i \in 1..(Len(currentHours) - 1) |->
            IF i < index THEN currentHours[i] ELSE currentHours[i + 1]]

\* Mutant: the only selected hour can be removed
toggleHour_RemoveOnly(selectedHours, hour) ==
    IF hour \in Range(selectedHours) THEN SpliceHour(selectedHours, hour)
    ELSE SortHours(Append(selectedHours, hour))

\* The value toggleHour leaves in selectedHours
toggleHour(selectedHours, hour) ==
    IF hour \in Range(selectedHours)
    THEN IF Len(selectedHours) > 1 THEN SpliceHour(selectedHours, hour)
         ELSE selectedHours
    ELSE SortHours(Append(selectedHours, hour))

RECURSIVE calculateTotalHours(_)
calculateTotalHours(hours) ==
    IF hours = <<>> THEN 0 ELSE hours[1] + calculateTotalHours(Tail(hours))

InitAddForm ==
    /\ op = "none" /\ input = <<>> /\ pc = "idle" /\ output = <<>>
    /\ app = "addForm"
    /\ remote = [tasks |-> RemoteTasks, failures |-> 0]
    /\ plans = RemotePlans
    /\ buckets = RemoteBuckets
    /\ entriesRef = <<>>
    /\ allMyTasks = <<>>
    /\ selectedPlanId = <<>>
    /\ loading = FALSE
    /\ error = <<>>
    /\ isInitializing = FALSE
    /\ calls = <<>>
    /\ form = [showAddForm |-> FALSE, selectedProjectId |-> "",
               selectedBucketId |-> "", description |-> "",
               selectedHours |-> <<120>>, entryDate |-> At(2024, 1, 4, 10, 0, 0)]

AddFormFrame ==
    UNCHANGED <<op, input, pc, app, remote, plans, buckets, entriesRef,
                allMyTasks, selectedPlanId, loading, error, isInitializing,
                calls>>

OpenAddForm ==
    /\ ~form.showAddForm
    /\ form' = [form EXCEPT !.entryDate = At(2024, 1, 4, 10, 0, 0),
                            !.selectedHours = <<120>>,
                            !.showAddForm = TRUE]
    /\ output' = <<>>
    /\ AddFormFrame

\* The user presses one of the hour buttons of the form
ToggleHour ==
    /\ form.showAddForm
    /\ \E hour \in HourButtons :
           form' = [form EXCEPT !.selectedHours = toggleHour(@, hour)]
    /\ UNCHANGED output
    /\ AddFormFrame

\* The user picks the project and the bucket and types the description
FillAddForm ==
    /\ form.showAddForm
    /\ form.description = ""
    /\ form' = [form EXCEPT !.selectedProjectId = RemoteBuckets[1].planId,
                            !.selectedBucketId = RemoteBuckets[1].id,
                            !.description = "Review"]
    /\ UNCHANGED output
    /\ AddFormFrame

\* The Cancel button: showAddForm = false
CancelAddForm ==
    /\ form.showAddForm
    /\ form' = [form EXCEPT !.showAddForm = FALSE]
    /\ UNCHANGED output
    /\ AddFormFrame

\* The Add Entry button: the view's handleAddEntry emits addEntry and resets
\* the form; the root's handleAddEntry creates the task, and loadEntries
\* builds the entry from the task the service returns.
SubmitAddForm ==
    /\ form.showAddForm
    /\ form.selectedProjectId /= "" /\ form.selectedBucketId /= ""
    /\ form.description /= ""
    /\ form.selectedHours /= <<>>
    /\ LET entryData == [projectId   |-> form.selectedProjectId,
                         bucketId    |-> form.selectedBucketId,
                         description |-> form.description,
                         hours       |-> form.selectedHours,
                         date        |-> form.entryDate]
           bucket == CHOOSE b \in FindBucket(entryData.bucketId,
                                             entryData.projectId) : TRUE
           task == CreatedTask(remote, NewTaskBody(entryData, bucket, RemoteMe))
       IN  output' = [entryData |-> entryData,
                      entry     |-> taskToTimeEntry(task, <<bucket.name>>)]
    /\ form' = [form EXCEPT !.description = "",
                            !.selectedHours = <<120>>,
                            !.entryDate = At(2024, 1, 4, 10, 0, 0),
                            !.showAddForm = FALSE]
    /\ AddFormFrame

NextAddForm ==
    \/ OpenAddForm
    \/ ToggleHour
    \/ FillAddForm
    \/ CancelAddForm
    \/ SubmitAddForm

SpecAddForm == InitAddForm /\ [][NextAddForm]_vars

(***************************************************************************)
(* Properties                                                              *)
(***************************************************************************)
Returned(f) == pc = "done" /\ op = f

\* An hour value (in minutes) within [0, 8] hours and a multiple of 0.5 hours
HalfHoursUpTo8(hours) == hours >= 0 /\ hours <= 480 /\ hours % 30 = 0

\* The flags of a mapping that are true
AppliedAt(categories) == {i \in DOMAIN categories : categories[i][2]}

\* The fixed table as the claim states it: hours (in minutes) and display label
C1_Table ==
    [category1 |-> <<30, "30m">>, category2 |-> <<60, "1h">>,
     category3 |-> <<120, "2h">>, category4 |-> <<180, "3h">>,
     category5 |-> <<240, "4h">>, category6 |-> <<300, "5h">>,
     category7 |-> <<360, "6h">>, category8 |-> <<420, "7h">>,
     category9 |-> <<480, "8h">>]

C2_AllHoursHalfHoursUpTo8 ==
    /\ Returned("parseHoursFromCategories") =>
        /\ output /= null => HalfHoursUpTo8(output.hours)
        /\ HalfHoursUpTo8(EntryHoursOf(output))
    /\ Returned("calculateHours") => HalfHoursUpTo8(output)
    /\ Returned("processCommits") =>
        \A i \in DOMAIN output : HalfHoursUpTo8(output[i].hours)

\* C2 amended: every hour value decoded from a true flag of the category
\* table (category1..category9), the 0 hours of a task with no decodable
\* flag, and every estimate of the autoCalculate branch lie in [0, 8] hours
\* and are multiples of 0.5.
C2_TableAndEstimateHoursBounded ==
    /\ Returned("parseHoursFromCategories") =>
        /\ (\E i \in AppliedAt(input) : input[i][1] \in DOMAIN C1_Table) =>
            /\ output /= null
            /\ HalfHoursUpTo8(output.hours)
            /\ EntryHoursOf(output) = output.hours
        /\ output = null => EntryHoursOf(output) = 0
    /\ Returned("calculateHours") => HalfHoursUpTo8(output)
    /\ Returned("processCommits") =>
        \A i \in DOMAIN output : \A r \in DOMAIN input.repos :
            (input.repos[r].name = output[i].repo
                /\ input.repos[r].autoCalculate) =>
                HalfHoursUpTo8(output[i].hours)

\* Three commits five hours apart: 240 + 240 + 30 minutes, capped at 8 hours
C2_Witness ==
    /\ Returned("calculateHours")
    /\ Len(input) = 3
    /\ input[1].date = At(2024, 1, 2, 9, 0, 0)
    /\ input[2].date = At(2024, 1, 2, 14, 0, 0)
    /\ input[3].date = At(2024, 1, 2, 19, 0, 0)
    /\ output = 480

\* Two commits whose timestamps are ten minutes apart
C3_TenMinutesApart(commits) ==
    /\ Len(commits) = 2
    /\ commits[1].repo = commits[2].repo
    /\ \/ commits[2].date - commits[1].date = 600
       \/ commits[1].date - commits[2].date = 600

\* C3 as stated: two commits on the same day and repo, ten minutes apart,
\* with autoCalculate = true are estimated at 0.5 hours.
C3_TenMinutesGivesHalfHour ==
    (Returned("calculateHours") /\ C3_TenMinutesApart(input)) => output = 30

\* C3 amended: two commits on the same day and repo, ten minutes apart, with
\* autoCalculate = true are estimated at 1.0 hours: the gap is clamped up to
\* 15 minutes, 30 minutes are added (45 minutes, 1.5 half-hours), and the
\* tie rounds up to two half-hours.
C3_TenMinutesGivesOneHour ==
    /\ (Returned("calculateHours") /\ C3_TenMinutesApart(input)) =>
        output = 60
    /\ (Returned("processCommits") /\ C3_TenMinutesApart(input.commitsList)
            /\ input.commitsList[1].repo = RepoWeb
            /\ input.repos[1].name = RepoWeb
            /\ input.repos[1].autoCalculate) =>
        (Len(output) = 1 /\ output[1].hours = 60)

C3_Witness ==
    /\ Returned("calculateHours")
    /\ Len(input) = 2
    /\ input[1].date = At(2024, 1, 2, 9, 0, 0)
    /\ input[2].date = At(2024, 1, 2, 9, 10, 0)
    /\ output = 60

\* The k-th smallest timestamp of a commit list (k in 1..Len)
C4_KthDate(commits, k) ==
    CHOOSE t \in {commits[i].date : i \in DOMAIN commits} :
        /\ Cardinality({i \in DOMAIN commits : commits[i].date < t}) < k
        /\ Cardinality({i \in DOMAIN commits : commits[i].date <= t}) >= k

\* clamp(gap, 15 min, 240 min) in seconds
C4_Clamp(gap) == IF gap < 900 THEN 900 ELSE IF gap > 14400 THEN 14400 ELSE gap

\* Sum of the clamped gaps of the pairs k, k+1 for k in from..(Len - 1)
RECURSIVE C4_SumGaps(_, _)
C4_SumGaps(commits, from) ==
    IF from >= Len(commits) THEN 0
    ELSE C4_Clamp(C4_KthDate(commits, from + 1) - C4_KthDate(commits, from))
            + C4_SumGaps(commits, from + 1)

\* C4: for a group of two or more commits with autoCalculate = true the
\* estimate is min(8 h, the sum of the clamped gaps of consecutive
\* timestamp-sorted pairs plus 30 minutes, rounded to a nearest half hour);
\* two commits 6 hours apart give 4.5 h, and three commits at 09:00, 09:20
\* and 14:00 give 5.0 h.
C4_GapEstimate ==
    (Returned("calculateHours") /\ Len(input) >= 2) =>
        LET total == C4_SumGaps(input, 1) + 1800
            dates == {input[i].date : i \in DOMAIN input}
        IN  /\ \E k \in 0..((total \div 1800) + 1) :
                /\ k * 1800 - total <= 900
                /\ total - k * 1800 <= 900
                /\ output = (IF k * 30 < 480 THEN k * 30 ELSE 480)
            /\ (Len(input) = 2 /\ dates = {At(2024, 1, 2, 9, 0, 0),
                                           At(2024, 1, 2, 15, 0, 0)}) =>
                output = 270
            /\ (Len(input) = 3 /\ dates = {At(2024, 1, 2, 9, 0, 0),
                                           At(2024, 1, 2, 9, 20, 0),
                                           At(2024, 1, 2, 14, 0, 0)}) =>
                output = 300

\* 14:00, 09:00, 09:20 in fetch order
C4_Witness ==
    /\ Returned("calculateHours")
    /\ Len(input) = 3
    /\ input[1].date = At(2024, 1, 2, 14, 0, 0)
    /\ input[2].date = At(2024, 1, 2, 9, 0, 0)
    /\ input[3].date = At(2024, 1, 2, 9, 20, 0)
    /\ output = 300

\* C5: with autoCalculate = true a group of exactly one commit is estimated
\* at exactly 2.0 hours, whatever its timestamp, and a group of zero commits
\* at 0 hours.
C5_SingleAndEmptyGroup ==
    /\ Returned("calculateHours") =>
        /\ Len(input) = 1 => output = 120
        /\ Len(input) = 0 => output = 0
    /\ Returned("processCommits") =>
        \A i \in DOMAIN output :
            (Len(output[i].commits) = 1
                /\ output[i].commits[1].repo = RepoWeb
                /\ input.repos[1].name = RepoWeb
                /\ input.repos[1].autoCalculate) =>
                output[i].hours = 120

C5_Witness ==
    /\ Returned("calculateHours")
    /\ Len(input) = 1
    /\ input[1].date = At(2024, 1, 2, 19, 0, 0)
    /\ output = 120

C5_WitnessEmpty ==
    Returned("calculateHours") /\ input = <<>> /\ output = 0

\* C6 as stated: for every day/repo group whose repo has autoCalculate =
\* false, the draft entry's hours equal that repo's configured defaultHours
\* verbatim, for every configured value, with no clamping or substitution.
C6_DefaultHoursVerbatim ==
    Returned("processCommits") =>
        \A i \in DOMAIN output : \A k \in DOMAIN output[i].commits :
            \A r \in DOMAIN input.repos :
                (input.repos[r].name = output[i].commits[k].repo
                    /\ ~input.repos[r].autoCalculate) =>
                    output[i].hours = input.repos[r].defaultHours

\* C6 for repo names without '_' only: still violated, by defaultHours = 0
C6_DefaultHoursVerbatimPlainName ==
    Returned("processCommits") =>
        \A i \in DOMAIN output : \A k \in DOMAIN output[i].commits :
            \A r \in DOMAIN input.repos :
                (input.repos[r].name = output[i].commits[k].repo
                    /\ Len(output[i].commits[k].repo) = 1
                    /\ ~input.repos[r].autoCalculate) =>
                    output[i].hours = input.repos[r].defaultHours

\* C6 for non-zero defaultHours only: still violated, by a repo name with '_'
C6_DefaultHoursVerbatimNonZero ==
    Returned("processCommits") =>
        \A i \in DOMAIN output : \A k \in DOMAIN output[i].commits :
            \A r \in DOMAIN input.repos :
                (input.repos[r].name = output[i].commits[k].repo
                    /\ input.repos[r].defaultHours /= 0
                    /\ ~input.repos[r].autoCalculate) =>
                    output[i].hours = input.repos[r].defaultHours

RECURSIVE SumTotalHours(_)
SumTotalHours(days) ==
    IF days = <<>> THEN 0 ELSE days[1].totalHours + SumTotalHours(Tail(days))

\* C7: for any non-empty list of entries, every WeeklyTimesheet returned by
\* groupByWeek holds exactly 7 DailyTimesheet values, and the sum of those 7
\* daily totals equals the week's totalHours.
C7_SevenDaysAndTotals ==
    (Returned("groupByWeek") /\ input /= <<>>) =>
        /\ output /= <<>>
        /\ \A w \in DOMAIN output :
            /\ Len(output[w].days) = 7
            /\ SumTotalHours(output[w].days) = output[w].totalHours

\* Entries on Sunday 2023-12-31 and Monday 2024-01-01 with hours: two weeks
C7_Witness ==
    /\ Returned("groupByWeek")
    /\ Len(input) = 3
    /\ input[1] = [id |-> 1, date |-> At(2024, 1, 1, 0, 0, 0), hours |-> 30]
    /\ input[2] = [id |-> 2, date |-> At(2023, 12, 31, 10, 0, 0), hours |-> 30]
    /\ input[3].date = At(2024, 1, 3, 9, 0, 0) /\ input[3].hours = 30
    /\ Len(output) = 2
    /\ output[2].totalHours = 60

\* The places <<week, day, index>> of the weekly result that hold entry e
C8_Places(weeks, e) ==
    {p \in (DOMAIN weeks) \X (1..7) \X (1..MaxEntries + 1) :
        /\ p[2] \in DOMAIN weeks[p[1]].days
        /\ p[3] \in DOMAIN weeks[p[1]].days[p[2]].entries
        /\ weeks[p[1]].days[p[2]].entries[p[3]] = e}

\* Local midnight of a Monday (2024-01-01 was a Monday)
C8_MondayMidnight(date) ==
    (date - At(2024, 1, 1, 0, 0, 0)) % (7 * 86400) = 0

\* C8: groupByWeek places every entry in exactly one week, the one whose
\* start is the Monday on or before the entry's calendar date; weeks are
\* emitted in ascending order of week start; the 7 days of a week are the
\* consecutive dates Monday through Sunday; each entry appears in the day
\* equal to its own calendar date, and days without entries are placeholders
\* with an empty entry list and total 0.
C8_WeekPartition ==
    Returned("groupByWeek") =>
        /\ \A i \in DOMAIN input :
            /\ Cardinality(C8_Places(output, input[i])) = 1
            /\ \A p \in C8_Places(output, input[i]) :
                LET week == output[p[1]]
                    day  == week.days[p[2]]
                IN  /\ C8_MondayMidnight(week.weekStart)
                    /\ week.weekStart <= input[i].date
                    /\ input[i].date < week.weekStart + 7 * 86400
                    /\ day.date <= input[i].date
                    /\ input[i].date < day.date + 86400
        /\ \A w \in DOMAIN output :
            /\ w > 1 => output[w - 1].weekStart < output[w].weekStart
            /\ DOMAIN output[w].days = 1..7
            /\ \A d \in 1..7 :
                LET day == output[w].days[d]
                IN  /\ day.date = output[w].weekStart + (d - 1) * 86400
                    /\ day.dayName =
                        <<"Monday", "Tuesday", "Wednesday", "Thursday",
                          "Friday", "Saturday", "Sunday">>[d]
                    /\ Range(day.entries) \subseteq Range(input)
                    /\ (\A i \in DOMAIN input :
                            ~(day.date <= input[i].date
                                /\ input[i].date < day.date + 86400)) =>
                        (day.entries = <<>> /\ day.totalHours = 0)

\* One entry late on Sunday 2023-12-31, one at Monday 2024-01-01 00:00, one
\* a week later: three weeks, the first entry on the 7th day of its week
C8_Witness ==
    /\ Returned("groupByWeek")
    /\ Len(input) = 3
    /\ input[1].date = At(2024, 1, 8, 8, 0, 0)
    /\ input[2].date = At(2024, 1, 1, 0, 0, 0)
    /\ input[3].date = At(2023, 12, 31, 23, 59, 59)
    /\ Len(output) = 3
    /\ output[1].weekStart = At(2023, 12, 25, 0, 0, 0)
    /\ output[1].days[7].entries = <<input[3]>>
    /\ output[2].days[1].entries = <<input[2]>>
    /\ output[2].days[2].entries = <<>>

\* The places <<day, index>> of the daily result that hold entry e
C9_Places(days, e) ==
    {p \in (DOMAIN days) \X (1..MaxEntries + 1) :
        /\ p[2] \in DOMAIN days[p[1]].entries
        /\ days[p[1]].entries[p[2]] = e}

RECURSIVE C9_Count(_)
C9_Count(days) ==
    IF days = <<>> THEN 0 ELSE Len(days[1].entries) + C9_Count(Tail(days))

\* C9: for any input list, concatenating the entries of all days returned by
\* groupByDay yields exactly the input entries as a multiset: none is
\* dropped and none is duplicated.
C9_FlattenPreservesEntries ==
    Returned("groupByDay") =>
        /\ \A i \in DOMAIN input : Cardinality(C9_Places(output, input[i])) = 1
        /\ C9_Count(output) = Len(input)

C9_Witness ==
    /\ Returned("groupByDay")
    /\ Len(input) = 3
    /\ input[1].date = At(2024, 1, 3, 9, 0, 0)
    /\ input[2].date = At(2023, 12, 31, 10, 0, 0)
    /\ input[3].date = At(2023, 12, 31, 10, 0, 0)
    /\ Len(output) = 2
    /\ output[1].entries = <<input[2], input[3]>>
    /\ output[2].entries = <<input[1]>>

\* C10: the days returned by groupByDay are in strictly ascending
\* calendar-date order, one group per distinct date, and within each day the
\* entries are in non-decreasing order of their exact timestamp.
C10_DaysAndEntriesSorted ==
    Returned("groupByDay") =>
        /\ \A d \in DOMAIN output :
            /\ d > 1 => output[d - 1].date + 86400 <= output[d].date
            /\ output[d].date % 86400 = 0
            /\ \A k \in DOMAIN output[d].entries :
                /\ output[d].date <= output[d].entries[k].date
                /\ output[d].entries[k].date < output[d].date + 86400
                /\ k > 1 => output[d].entries[k - 1].date
                                <= output[d].entries[k].date
        /\ Len(output) =
            Cardinality({input[i].date \div 86400 : i \in DOMAIN input})

\* Same-day entries arriving latest first, after an entry of the next year
C10_Witness ==
    /\ Returned("groupByDay")
    /\ Len(input) = 3
    /\ input[1].date = At(2024, 1, 1, 0, 0, 0)
    /\ input[2].date = At(2023, 12, 31, 23, 59, 59)
    /\ input[3].date = At(2023, 12, 31, 10, 0, 0)
    /\ Len(output) = 2
    /\ output[1].entries = <<input[3], input[2]>>
    /\ output[2].entries = <<input[1]>>

\* C11: filterByDateRange(entries, start, end) returns, in their order,
\* exactly the entries e with start <= e.date <= end + 23 hours: an entry at
\* start and one at end + 23 hours are kept, anything later is dropped, and
\* with it an entry in the last hour of the day of a midnight end.
C11_InRange(e) ==
    /\ input.range.startDate <= e.date
    /\ e.date <= input.range.endDate + 23 * 60 * 60

RECURSIVE C11_Kept(_)
C11_Kept(entries) ==
    IF entries = <<>> THEN <<>>
    ELSE IF C11_InRange(Head(entries))
    THEN <<Head(entries)>> \o C11_Kept(Tail(entries))
    ELSE C11_Kept(Tail(entries))

C11_FilterKeepsStartToEndPlus23h ==
    Returned("filterByDateRange") =>
        /\ output = C11_Kept(input.entries)
        /\ \A i \in DOMAIN input.entries :
               (\E j \in DOMAIN output : output[j].id = i)
                   <=> C11_InRange(input.entries[i])

\* An entry at start, one at end + 23 h and one at 23:30 of a midnight
\* end's day were given: the first two came back, the third did not.
C11_Witness ==
    /\ Returned("filterByDateRange")
    /\ input.range.endDate = At(2024, 1, 1, 0, 0, 0)
    /\ Len(input.entries) = 3
    /\ input.entries[1].date = input.range.startDate
    /\ input.entries[2].date = At(2024, 1, 1, 23, 30, 0)
    /\ input.entries[3].date = At(2024, 1, 1, 23, 0, 0)
    /\ output = <<input.entries[1], input.entries[3]>>

\* C12: the date of the entry taskToTimeEntry builds is the task's due date
\* when the task has one, its start date only when it has no due date, and
\* its creation date only when it has neither.
C12_Instant(dateTime) ==
    At(dateTime[1], dateTime[2], dateTime[3],
       dateTime[4], dateTime[5], dateTime[6])

C12_DuePresent == input.task.dueDateTime /= <<>>

C12_StartPresent == input.task.startDateTime /= <<>>

C12_DueThenStartThenCreated ==
    Returned("taskToTimeEntry") =>
        /\ C12_DuePresent =>
               output.date = C12_Instant(input.task.dueDateTime[1])
        /\ (~C12_DuePresent /\ C12_StartPresent) =>
               output.date = C12_Instant(input.task.startDateTime[1])
        /\ (~C12_DuePresent /\ ~C12_StartPresent) =>
               output.date = C12_Instant(input.task.createdDateTime)

\* A task with a due date of 2024-01-02 and a later start date is dated by
\* its due date.
C12_Witness ==
    /\ Returned("taskToTimeEntry")
    /\ input.task.dueDateTime = <<<<2024, 1, 2, 0, 0, 0>>>>
    /\ input.task.startDateTime = <<<<2024, 1, 3, 9, 0, 0>>>>
    /\ output.date = At(2024, 1, 2, 0, 0, 0)

\* The direct-hour texts among the identifiers of the inputs, with their hours
C13_Fallback == ("1.5h" :> 90) @@ ("15m" :> 15) @@ ("12h" :> 720)

C13_FirstTrue(keys) ==
    LET hits == {i \in AppliedAt(input) : input[i][1] \in keys}
    IN  IF hits = {} THEN 0 ELSE CHOOSE i \in hits : \A j \in hits : i <= j

\* C13: parseHoursFromCategories returns the hours of one flag, never a sum:
\* the first true flag, in the mapping's iteration order, that is in the
\* category table; the direct-hour table is used only when no true flag is in
\* the category table, and then the first true flag found in it is returned
\* with its own text as display label.
C13_FirstTableFlagThenFirstFallbackFlag ==
    Returned("parseHoursFromCategories") =>
        LET c == C13_FirstTrue(DOMAIN C1_Table)
            d == C13_FirstTrue(DOMAIN C13_Fallback)
        IN  IF c /= 0
            THEN /\ output /= null
                 /\ output.categoryName = input[c][1]
                 /\ output.hours = C1_Table[input[c][1]][1]
                 /\ output.displayLabel = C1_Table[input[c][1]][2]
            ELSE IF d /= 0
            THEN /\ output /= null
                 /\ output.categoryName = input[d][1]
                 /\ output.hours = C13_Fallback[input[d][1]]
                 /\ output.displayLabel = input[d][1]
            ELSE output = null

\* Two true flags of the category table: the first (8 h) is returned, not
\* the second (0.5 h) and not their sum.
C13_Witness ==
    /\ Returned("parseHoursFromCategories")
    /\ input = <<<<"category9", TRUE>>, <<"category1", TRUE>>>>
    /\ output.categoryName = "category9"
    /\ output.hours = 480

\* What the decoder gives for the decodable identifiers of the task inputs
C14_Decoded ==
    ("category1" :> <<30, "30m">>) @@ ("category4" :> <<180, "3h">>)
        @@ ("12h" :> <<720, "12h">>)

C14_TrueFlags(keys) ==
    {i \in AppliedAt(input.task.appliedCategories) :
        input.task.appliedCategories[i][1] \in keys}

\* C14: taskToTimeEntry gives the entry the hours and the display label that
\* the decoder returns for the task's appliedCategories; when the decoder
\* returns none (no true flag is decodable), the entry has 0 hours and no
\* category label.
C14_HoursAndLabelFromDecoder ==
    Returned("taskToTimeEntry") =>
        LET cats == input.task.appliedCategories
            c == C14_TrueFlags({"category1", "category4"})
            d == C14_TrueFlags({"12h"})
            k == IF c /= {} THEN cats[MinOf(c)][1]
                 ELSE IF d /= {} THEN cats[MinOf(d)][1]
                 ELSE ""
        IN  IF k = ""
            THEN output.hours = 0 /\ output.categoryLabel = <<>>
            ELSE /\ output.hours = C14_Decoded[k][1]
                 /\ output.categoryLabel = <<C14_Decoded[k][2]>>

\* A task whose only true flag is in neither table became an entry of 0 hours
\* without a label.
C14_Witness ==
    /\ Returned("taskToTimeEntry")
    /\ input.task.appliedCategories =
           <<<<"category4", FALSE>>, <<"category11", TRUE>>>>
    /\ output.hours = 0
    /\ output.categoryLabel = <<>>

\* A task labelled category4 became an entry of 3 hours labelled "3h".
C14_WitnessDecoded ==
    /\ Returned("taskToTimeEntry")
    /\ input.task.appliedCategories = <<<<"category4", TRUE>>>>
    /\ output.hours = 180
    /\ output.categoryLabel = <<"3h">>

\* The label table of the README, hours in minutes
C15_ReadmeTable ==
    [category1 |-> 30, category2 |-> 60, category3 |-> 90, category4 |-> 120,
     category5 |-> 180, category6 |-> 240, category11 |-> 300,
     category7 |-> 360, category8 |-> 420, category9 |-> 480]

\* C15: the label-to-hours mapping is the one of the README: a single true
\* flag category1, 2, 3, 4, 5, 6, 11, 7, 8, 9 decodes to 0.5, 1, 1.5, 2, 3,
\* 4, 5, 6, 7, 8 hours.
C15_DecodesAsReadme ==
    Returned("parseHoursFromCategories") =>
        \A i \in DOMAIN input :
            (AppliedAt(input) = {i} /\ input[i][1] \in DOMAIN C15_ReadmeTable) =>
                /\ output /= null
                /\ output.hours = C15_ReadmeTable[input[i][1]]

(***************************************************************************)
(* Failures of the remote service                                          *)
(***************************************************************************)
\* An activation fails in this step: it settles on a response that
\* fetchWithAuth turns into a GraphError, either the response it was handed
\* or the one the service gives in this step.
FailsNow(i) ==
    /\ calls[i].pc /= "done"
    /\ Len(calls') = Len(calls) /\ calls'[i].pc = "done"
    /\ IF calls[i].response /= <<>>
       THEN fetchWithAuth(calls[i].response[1]).threw
       ELSE \/ remote'.failures > remote.failures
            \/ fetchWithAuth(Serve(calls[i].request, remote).response).threw

\* C16: when a load, add, edit or delete fails, the entry list held before
\* the failing step of the handler is still held after it.
C16_FailureLeavesEntries ==
    [][\A i \in DOMAIN calls :
           FailsNow(i) /\ calls[i].fn /= "loadPlans" => entriesRef' = entriesRef]_vars

(***************************************************************************)
(* Responses that arrive late                                              *)
(***************************************************************************)
\* Activation i is handed, in this step, a response with the tasks
TasksArrive(i) ==
    /\ calls[i].pc = "getMyTasks" /\ calls[i].response /= <<>>
    /\ ~fetchWithAuth(calls[i].response[1]).threw
    /\ Len(calls') = Len(calls) /\ calls'[i].pc = "done"

\* An activation started after i has already fetched the tasks and settled
C17_Late(i) ==
    \E j \in DOMAIN calls :
        /\ j > i /\ calls[j].pc = "done"
        /\ getMyTasksRequest \in Range(calls[j].sent)

\* The entry list the component builds from the response activation i holds
C17_EntriesOf(i) ==
    LET value == fetchWithAuth(calls[i].response[1]).value
    IN  IF app = "daily" THEN LoadedEntries(value)
        ELSE PlanEntries(SelectSeq(value,
                                   LAMBDA t : t.planId = calls[i].args.planId))

\* Every activation has settled and no request has failed
C17_AllSettled ==
    /\ \A i \in DOMAIN calls : calls[i].pc = "done"
    /\ remote.failures = 0

\* C17: fetches of the tasks overlap, and a response that arrives after a
\* later-started operation has fetched and settled still replaces the entry
\* list; nothing discards it.
C17_LateResponseOverwrites ==
    [][\A i \in DOMAIN calls :
           TasksArrive(i) /\ C17_Late(i) => entriesRef' = C17_EntriesOf(i)]_vars

\* Two handlers that each ended in loadEntries have settled without any
\* failure, and the list shown is not what the service holds: the response
\* served first was applied last.
C17_Witness ==
    /\ app = "daily" /\ C17_AllSettled
    /\ Len(calls) = 3
    /\ \A i \in 2..3 : calls[i].fn \in {"handleAddEntry", "handleEditEntry",
                                        "handleDeleteEntry"}
                       /\ getMyTasksRequest \in Range(calls[i].sent)
    /\ entriesRef /= LoadedEntries(remote.tasks)

\* Plan B is selected, both loads have settled, and the list shows plan A.
C17_WitnessPlanChange ==
    /\ app = "plans" /\ C17_AllSettled
    /\ selectedPlanId = <<"planB">>
    /\ entriesRef /= <<>>
    /\ \A i \in DOMAIN entriesRef : entriesRef[i].rawTask.planId = "planA"

(***************************************************************************)
(* The concurrency token                                                   *)
(***************************************************************************)
Writes(request) == request /= <<>> /\ request.method \in {"PATCH", "DELETE"}

\* The activation that starts in this step, if one does
C18_Started(fn) ==
    /\ Len(calls') = Len(calls) + 1
    /\ calls'[Len(calls')].fn = fn

\* Every update and delete request is for the task, and carries the token,
\* that the handler was called with
C18_RequestsCarryToken ==
    \A i \in DOMAIN calls : \A k \in DOMAIN calls[i].sent :
        LET request == calls[i].sent[k]
        IN  Writes(request) =>
                /\ request.path = <<"planner", "tasks", calls[i].args.taskId>>
                /\ request.ifMatch = <<calls[i].args.etag>>

\* The edit form holds the id and the token of the entry it was opened on
C18_FormHoldsToken ==
    form.showEditForm =>
        /\ form.editTaskId = form.editingEntry[1].id
        /\ form.editEtag = form.editingEntry[1].rawTask.etag

\* The form opens on an entry of the list, the edit handler is called with
\* what the form holds, the delete handler with the id and the token of an
\* entry of the list, and the raw task of an entry is a task of the response
\* the list was built from
C18_TokenFromFetch ==
    /\ (~form.showEditForm /\ form'.showEditForm
            => form'.editingEntry[1] \in Range(entriesRef))
    /\ (C18_Started("handleEditEntry")
            => /\ calls'[Len(calls')].args.taskId = form.editTaskId
               /\ calls'[Len(calls')].args.etag = form.editEtag)
    /\ (C18_Started("handleDeleteEntry")
            => \E entry \in Range(entriesRef) :
                   calls'[Len(calls')].args =
                       [taskId |-> entry.id, etag |-> entry.rawTask.etag])
    /\ \A i \in DOMAIN calls :
           TasksArrive(i) =>
               \A e \in Range(entriesRef') :
                   e.rawTask \in Range(fetchWithAuth(calls[i].response[1]).value)

\* C18: every update and every delete request carries, as If-Match, the
\* token read with the task at the fetch that produced the entry being
\* edited or deleted.
C18_IfMatchIsFetchedToken ==
    /\ [](C18_RequestsCarryToken /\ C18_FormHoldsToken)
    /\ [][C18_TokenFromFetch]_vars

\* task1 was edited, fetched again, and edited once more with the token of
\* the second fetch, which the service accepted; a delete was sent as well
C18_Witness ==
    \E i \in DOMAIN calls :
        /\ calls[i].fn = "handleEditEntry"
        /\ \E k \in DOMAIN calls[i].sent :
               /\ Writes(calls[i].sent[k])
               /\ calls[i].sent[k].ifMatch = <<2>>
               /\ k < Len(calls[i].sent)

\* A delete request carrying the token of task2 has been sent
C18_WitnessDelete ==
    \E i \in DOMAIN calls :
        /\ calls[i].fn = "handleDeleteEntry"
        /\ calls[i].sent[1] = deleteTaskRequest("task2", 3)

(***************************************************************************)
(* Rejected writes                                                         *)
(***************************************************************************)
\* The service rejects, in this step, the update or delete that activation i
\* awaits: the token is stale, the task is gone, or the request fails
C19_Rejected(i) ==
    /\ calls[i].fn \in {"handleEditEntry", "handleDeleteEntry"}
    /\ calls[i].pc \in {"updateTask", "deleteTask"}
    /\ Len(calls') = Len(calls) /\ calls'[i] /= calls[i]
    /\ \/ remote'.failures > remote.failures
       \/ fetchWithAuth(Serve(calls[i].request, remote).response).threw

\* C19: when the service rejects an update or a delete, the handler sends no
\* further request, neither the write again nor a fetch of the entries; it
\* sets its error message and clears the loading flag, and it stays settled.
C19_RejectedWriteOnlySetsError ==
    /\ [][\A i \in DOMAIN calls :
              C19_Rejected(i) =>
                  /\ calls'[i].pc = "done"
                  /\ calls'[i].sent = calls[i].sent
                  /\ error' = <<CatchMessage(calls[i].fn)>>
                  /\ loading' = FALSE
                  /\ entriesRef' = entriesRef]_vars
    /\ [][\A i \in DOMAIN calls :
              calls[i].pc = "done" =>
                  Len(calls') >= Len(calls) /\ calls'[i] = calls[i]]_vars

\* An edit or delete was rejected for its stale token (no request failed
\* otherwise): the handler has settled, the rejected write is the last
\* request it sent, its message is shown and loading is cleared
C19_Witness ==
    \E i \in DOMAIN calls :
        /\ calls[i].fn \in {"handleEditEntry", "handleDeleteEntry"}
        /\ calls[i].pc = "done"
        /\ calls[i].sent /= <<>>
        /\ Writes(calls[i].sent[Len(calls[i].sent)])
        /\ remote.failures = 0
        /\ error = <<CatchMessage(calls[i].fn)>>
        /\ ~loading

(***************************************************************************)
(* Failed fetches                                                          *)
(***************************************************************************)
\* The request for the plans, or for the buckets of a plan, that loadPlans
\* awaits fails in this step
C20_FetchFails(i) ==
    /\ calls[i].fn = "loadPlans"
    /\ calls[i].pc \in {"getPlans", "getBuckets"}
    /\ Len(calls') = Len(calls) /\ calls'[i] /= calls[i]
    /\ remote'.failures > remote.failures

\* C20: a failed fetch of the plans or of a plan's buckets is a failure of
\* the load: the load ends there and goes on to no further request as if the
\* fetch had returned a result.
C20_FailedFetchEndsLoad ==
    [][\A i \in DOMAIN calls :
           C20_FetchFails(i) =>
               /\ calls'[i].pc = "done"
               /\ calls'[i].sent = calls[i].sent]_vars

(***************************************************************************)
(* Draft entries                                                           *)
(***************************************************************************)
\* The places at which commit c is a member of a draft
C21_Places(drafts, c) ==
    {<<d, k>> \in (DOMAIN drafts) \X (1..(MaxCommits + 1)) :
        k \in DOMAIN drafts[d].commits /\ drafts[d].commits[k] = c}

C21_SameGroup(c1, c2) ==
    DayNumber(c1.date) = DayNumber(c2.date) /\ c1.repo = c2.repo

\* C21: processCommits partitions the commits by (calendar day, repo): every
\* commit is a member of exactly one draft, a draft has members only from the
\* input, the members of a draft share day and repo, and no two drafts hold
\* commits of the same day and repo.
C21_PartitionByDayAndRepo ==
    Returned("processCommits") =>
        /\ \A i \in DOMAIN input.commitsList :
               Cardinality(C21_Places(output, input.commitsList[i])) = 1
        /\ \A d \in DOMAIN output :
               /\ output[d].commits /= <<>>
               /\ Range(output[d].commits) \subseteq Range(input.commitsList)
               /\ \A c1, c2 \in Range(output[d].commits) : C21_SameGroup(c1, c2)
        /\ \A d1, d2 \in DOMAIN output :
               d1 /= d2 =>
                   ~C21_SameGroup(output[d1].commits[1], output[d2].commits[1])

\* Three commits of one day, two of one repo and one of another, gave two
\* drafts
C21_Witness ==
    /\ Returned("processCommits")
    /\ Len(input.commitsList) = 3
    /\ \A i \in 1..3 : DayNumber(input.commitsList[i].date)
                           = DayNumber(input.commitsList[1].date)
    /\ Len(output) = 2
    /\ \E d \in DOMAIN output : Len(output[d].commits) = 2

\* The same repo on two days gave two drafts
C21_WitnessTwoDays ==
    /\ Returned("processCommits")
    /\ Len(output) = 2
    /\ output[1].commits[1].repo = output[2].commits[1].repo
    /\ output[1].date /= output[2].date

\* C22: the drafts processCommits returns are ordered by date, most recent
\* day first.
C22_DraftsByDateDescending ==
    Returned("processCommits") =>
        \A i \in 1..(Len(output) - 1) : output[i].date >= output[i + 1].date

\* The first commit of the list is of the earlier day, and the draft of the
\* later day comes first
C22_Witness ==
    /\ Returned("processCommits")
    /\ Len(output) >= 2
    /\ output[1].date > output[Len(output)].date
    /\ startOfDay(input.commitsList[1].date) = output[Len(output)].date

\* C26: for any repo name, with or without '_', the repo of a draft is the
\* repo of each of its commits, and its hours are computed under that repo's
\* own configuration.
C26_DraftUnderOwnRepo ==
    Returned("processCommits") =>
        \A d \in DOMAIN output : \A c \in Range(output[d].commits) :
            /\ output[d].repo = c.repo
            /\ output[d].hours = DraftHours(input.repos, c.repo, output[d].commits)

\* C26 for the hours alone: still violated
C26_HoursUnderOwnRepo ==
    Returned("processCommits") =>
        \A d \in DOMAIN output : \A c \in Range(output[d].commits) :
            output[d].hours = DraftHours(input.repos, c.repo, output[d].commits)

\* The hours of the drafts of one calendar day, selected or not
C23_DayTotal(drafts, day) ==
    SumHours(SelectSeq(drafts, LAMBDA e : DayNumber(e.date) = day))

C23_Flagged(message) ==
    IF message /= <<>> /\ Len(message) = 2
    THEN {DayNumber(parseISOKey(message[2][i])) : i \in DOMAIN message[2]}
    ELSE {}

\* C23: after the commits are fetched, a day is named in the high-hours
\* warning exactly when the hours of all its drafts add up to more than 8,
\* and the drafts keep the hours and the selection processCommits gave them.
C23_WarningExactlyAbove8 ==
    Returned("fetchCommits") =>
        /\ \A e \in Range(output.draftEntries) :
               DayNumber(e.date) \in C23_Flagged(output.error)
                   <=> C23_DayTotal(output.draftEntries, DayNumber(e.date)) > 480
        /\ \A day \in C23_Flagged(output.error) :
               \E e \in Range(output.draftEntries) : DayNumber(e.date) = day
        /\ output.draftEntries = processCommits(input.commitsList, input.repos)

\* A day is flagged although none of its drafts exceeds 8 hours
C23_Witness ==
    /\ Returned("fetchCommits")
    /\ \E e \in Range(output.draftEntries) :
           /\ DayNumber(e.date) \in C23_Flagged(output.error)
           /\ \A f \in Range(output.draftEntries) : f.hours <= 480


\* Two days with drafts, one flagged and one not
C23_WitnessOneOfTwoDays ==
    /\ Returned("fetchCommits")
    /\ \E e, f \in Range(output.draftEntries) :
           /\ DayNumber(e.date) \in C23_Flagged(output.error)
           /\ DayNumber(f.date) \notin C23_Flagged(output.error)

\* The drafts of a day add up to exactly 8 hours and the day is not flagged
C23_WitnessExactly8 ==
    /\ Returned("fetchCommits")
    /\ \E e \in Range(output.draftEntries) :
           /\ C23_DayTotal(output.draftEntries, DayNumber(e.date)) = 480
           /\ DayNumber(e.date) \notin C23_Flagged(output.error)

(***************************************************************************)
(* The add form                                                            *)
(***************************************************************************)
\* C24: an entry added with the selected hours S comes back from
\* taskToTimeEntry with hours equal to the sum of S, the total the form shows.
C24_EntryHoursAreFormTotal ==
    (app = "addForm" /\ output /= <<>>) =>
        output.entry.hours = calculateTotalHours(output.entryData.hours)

\* C24 for one selected hour value only: holds
C24_SingleHourComesBack ==
    (app = "addForm" /\ output /= <<>> /\ Len(output.entryData.hours) = 1) =>
        output.entry.hours = output.entryData.hours[1]

\* With several values selected the entry reports the first of them
C24_FirstSelectedComesBack ==
    (app = "addForm" /\ output /= <<>>) =>
        output.entry.hours = output.entryData.hours[1]

\* C28: the selected hours of the add form are never empty, are sorted
\* ascending and hold no value twice; pressing the button of the only
\* selected hour leaves the selection as it is.
C28_SelectedHoursWellFormed ==
    /\ [](app = "addForm" =>
            /\ form.selectedHours /= <<>>
            /\ \A i, j \in DOMAIN form.selectedHours :
                   i < j => form.selectedHours[i] < form.selectedHours[j])
    /\ [][(app = "addForm" /\ form.showAddForm /\ form'.showAddForm
              /\ Len(form.selectedHours) = 1
              /\ Len(form'.selectedHours) = 1)
             => form'.selectedHours = form.selectedHours]_vars
    /\ [](app = "addForm" =>
            \A hour \in HourButtons :
                Len(form.selectedHours) = 1 /\ form.selectedHours[1] = hour
                    => toggleHour(form.selectedHours, hour) = form.selectedHours)

\* Three hours are selected, added in an order that is not ascending, after
\* the default 2 h was toggled off
C28_Witness ==
    /\ app = "addForm" /\ form.showAddForm
    /\ form.selectedHours = <<30, 180, 480>>

\* Only one hour is selected and it is not the default
C28_WitnessOnlyHour ==
    /\ app = "addForm" /\ form.showAddForm
    /\ form.selectedHours = <<300>>

(***************************************************************************)
(* The flags an edit sends                                                 *)
(***************************************************************************)
C25_Nine == {"category" \o ToString(i) : i \in 1..9}

\* The categories the selected hours stand for
C25_Mapped(hours) == {hoursCategoryMap[hours[i]] : i \in DOMAIN hours}

C25_TrueAmongNine(categories) ==
    {categories[i][1] : i \in {j \in DOMAIN categories :
                                  categories[j][2] /\ categories[j][1] \in C25_Nine}}

\* C25: an edit with the selected hours S sends a mapping that names each of
\* category1..category9 once, true exactly for the categories of S; after
\* the service has merged it, the true flags of the task among
\* category1..category9 are exactly those of S, whatever was true before.
C25_EditSetsExactlySelected ==
    Returned("handleEditEntry") =>
        LET sent == output.updates.appliedCategories
        IN  /\ {sent[i][1] : i \in DOMAIN sent} = C25_Nine
            /\ Len(sent) = 9
            /\ C25_TrueAmongNine(sent) = C25_Mapped(input.hours)
            /\ C25_TrueAmongNine(output.task.appliedCategories)
                   = C25_Mapped(input.hours)

\* The task carried a flag the new selection does not stand for, and a flag
\* outside the nine; the former is false after the edit
C25_Witness ==
    /\ Returned("handleEditEntry")
    /\ <<"category1", TRUE>> \in Range(input.categories)
    /\ <<"12h", TRUE>> \in Range(input.categories)
    /\ input.hours = <<180, 480>>
    /\ <<"category1", FALSE>> \in Range(output.task.appliedCategories)

(***************************************************************************)
(* The loading flag                                                        *)
(***************************************************************************)
C27_Awaiting == \E i \in DOMAIN calls : calls[i].pc /= "done"

\* C27: while a load, add, edit or delete awaits a response of the service
\* the loading flag is true, and once every started operation has settled it
\* is false.
C27_LoadingIffAwaiting ==
    app \in {"daily", "plans"} => (loading <=> C27_Awaiting)

\* C27, second half alone: holds
C27_SettledClearsLoading ==
    app \in {"daily", "plans"} => (~C27_Awaiting => ~loading)

(***************************************************************************)
(* fetchWithAuth                                                           *)
(***************************************************************************)
C29_HasToken == input.account /= <<>> /\ input.silent /= <<>>

\* C29: without an access token fetchWithAuth sends nothing and fails with
\* status 401; when the service answers with a status that is not OK it
\* fails with that status and returns no result; a 204 answer yields null.
C29_FetchWithAuthOutcomes ==
    Returned("fetchWithAuth") =>
        /\ ~C29_HasToken =>
               /\ output.fetched = <<>>
               /\ output.threw /\ output.statusCode = 401
        /\ C29_HasToken => output.fetched = <<input.request>>
        /\ (C29_HasToken /\ input.response.status \notin 200..299) =>
               /\ output.threw
               /\ output.statusCode = input.response.status
               /\ "value" \notin DOMAIN output
        /\ (C29_HasToken /\ input.response.status = 204) =>
               ~output.threw /\ output.value = null

\* The service rejected a delete for its stale token, and the error carries 412
C29_Witness ==
    /\ Returned("fetchWithAuth") /\ C29_HasToken
    /\ input.request.method = "DELETE" /\ input.response.status = 412
    /\ output.threw /\ output.statusCode = 412

\* The account is signed in but the silent acquisition failed: nothing sent
C29_WitnessNoToken ==
    /\ Returned("fetchWithAuth")
    /\ input.account /= <<>> /\ input.silent = <<>>
    /\ output.fetched = <<>> /\ output.statusCode = 401

C29_Witness204 ==
    /\ Returned("fetchWithAuth") /\ C29_HasToken
    /\ input.response.status = 204 /\ output.value = null

C30_WitnessAdjust ==
    /\ Returned("adjustHours")
    /\ \/ input = [hours |-> 480, delta |-> 30]
       \/ input = [hours |-> 30, delta |-> -30]
    /\ output.hours = input.hours

====
